---- MODULE Spec2Model ----
(***************************************************************************)
(* Verification model of the palmares framework: the Databases singleton   *)
(* (init / migrate / makeMigrations / close / getModels), model events,    *)
(* abstract loading, the Sequelize include statement, the migrations       *)
(* manager, the union and object schema translations, removeExtraneous,    *)
(* CharField, the engines' transaction and the model operations replayed   *)
(* on a migration state.                                                   *)
(*                                                                         *)
(* JavaScript runs one synchronous block at a time: an action of this      *)
(* module is one synchronous block, from the resumption of an await (or    *)
(* the call) to the next await that waits on another task.                 *)
(***************************************************************************)
EXTENDS Integers, Sequences, FiniteSets, TLC

VARIABLES
  isInitializing,              \* Databases.isInitializing
  isInitialized,               \* Databases.isInitialized
  initializedEngineInstances,  \* Databases.initializedEngineInstances
  cachedModelsByModelName,     \* Databases.#cachedModelsByModelName (insertion ordered)
  domains,                     \* the DatabaseDomainInterface[] handed to the calls
  engineMode,                  \* what each engine's isConnected may answer
  hasClose,                    \* whether each engine adapter defines close
  proc,                        \* one record per call in flight on the Databases instance
  initializeDatabaseCalls      \* how often initializeDatabase was called, per engine name

dbVars == <<isInitializing, isInitialized, initializedEngineInstances,
            cachedModelsByModelName, domains, engineMode, hasClose, proc,
            initializeDatabaseCalls>>

env == <<domains, engineMode, hasClose>>

VARIABLES
  modelOptions,                 \* options.onSet / options.onRemove of the model
  eventListeners,               \* the listeners #initializeEvents has added to the emitter
  stringfiedArgumentsOfEvents,  \* BaseModel.stringfiedArgumentsOfEvents
  eventsInFlight,               \* events emitted and not yet delivered to a listener
  runningHandlers,              \* invocations of eventHandler that have not resolved
  eventLog,                     \* the latest delivery, with whether the handler was invoked
  eventsInitialized,            \* the engines #initializeEvents has run for
  eventsEmitted                 \* number of events emitted so far

evVars == <<modelOptions, eventListeners, stringfiedArgumentsOfEvents, eventsInFlight,
            runningHandlers, eventLog, eventsInitialized, eventsEmitted>>

VARIABLES
  abstractsOf,           \* the `abstracts` of each model class
  fieldsOf,              \* the names of the `fields` each class defines
  modelFields,           \* modelInstance.fields of the model being initialized
  composedAbstracts,     \* the composedAbstracts array handed down the recursion
  hasLoadedAbstracts,    \* BaseModel.__hasLoadedAbstracts of the model
  abstractStack,         \* the calls of __loadAbstract in progress, innermost last
  abstractOutcome,       \* "idle", "running", "done" or the error thrown
  abstractThrownBy       \* the abstract whose loading threw, and the field

abVars == <<abstractsOf, fieldsOf, modelFields, composedAbstracts, hasLoadedAbstracts,
            abstractStack, abstractOutcome, abstractThrownBy>>

VARIABLES
  associations,        \* model.associations of each Sequelize model: the targets, in order
  queriedModel,        \* the model handed to get()
  queriedIncludes,     \* args.includes of get()
  modelAlreadyParsed,  \* the modelAlreadyParsed array shared by the recursion
  includeStack,        \* the calls of getIncludeStatement in progress, innermost last
  includeResult,       \* the include statement returned to get()
  includeOutcome       \* "idle", "running", "done" or "RangeError"

incVars == <<associations, queriedModel, queriedIncludes, modelAlreadyParsed,
             includeStack, includeResult, includeOutcome>>

VARIABLES
  palmaresMigrations,      \* the rows of the palmares_migrations table, oldest first
  createdMigrations,       \* per engine, the name of the last createMigration that completed
  lastMigrationQuery,      \* the getLastMigrationName call awaiting this.get, or idle
  lastMigrationName        \* what the last getLastMigrationName returned, and for what

mgVars == <<palmaresMigrations, createdMigrations, lastMigrationQuery, lastMigrationName>>

VARIABLES
  adapterHasUnion,             \* adapter.union !== undefined
  memberReportsFallback,       \* per schema of the union, what its transformation reports
  unionPc,                     \* where __transformToAdapter stands
  memberTransformers,          \* per schema, the state of its awaitableTransformer
  shouldBeHandledByFallback,   \* the local of the same name
  fallbackInstalled,           \* Validator.createAndAppendFallback was called
  transformedSchemas           \* the transformed schemas, in the order they were pushed

unVars == <<adapterHasUnion, memberReportsFallback, unionPc, memberTransformers,
            shouldBeHandledByFallback, fallbackInstalled, transformedSchemas>>

VARIABLES
  objectData,        \* the keys of __data of the ObjectSchema
  mediumParsers,     \* the names set in __parsers.medium
  parserInput,       \* the value handed to the removeExtraneous parser
  parserOutput       \* what the parser returned, or NotParsed

reVars == <<objectData, mediumParsers, parserInput, parserOutput>>

VARIABLES
  charFieldParams,        \* the params the CharField was created with
  charField,              \* the CharField, or NoField
  charFieldOptions,       \* what constructorOptions() of the field resolved to
  charFieldClone,         \* CharField.new(options), or NoField
  charFieldsCompare       \* what clone.compare(field) resolved to: "none", "true", "false"

cfVars == <<charFieldParams, charField, charFieldOptions, charFieldClone, charFieldsCompare>>

VARIABLES
  txEngine,          \* "drizzle" or "sequelize"
  txOrm,             \* how the ORM's own transaction() behaves in this run
  txCallback,        \* how the callback behaves in this run
  txPc,              \* where the call of transaction stands
  txCallbackOutcome, \* how the callback completed, once it has
  txPromise,         \* the promise returned by transaction
  txSettled          \* the states the promise was settled to, in order

txVars == <<txEngine, txOrm, txCallback, txPc, txCallbackOutcome, txPromise, txSettled>>

VARIABLES
  stateModels,       \* the models of the migration state, by name
  stateBefore,       \* the models of the state when the operation was called
  operation,         \* the operation whose stateForwards is called
  operationPc,       \* where stateForwards stands
  statePending       \* the calls of state.set / state.remove that have not taken effect

msVars == <<stateModels, stateBefore, operation, operationPc, statePending>>

VARIABLES
  toTransform,                  \* per key of the object: is its value a schema, how many
                                \* variants it translates to, does it ask for the fallback
  objectPc,                     \* where ObjectSchema.__transformToAdapter stands
  keyTransformers,              \* the keys whose awaitableTransformer has not resumed
  transformedDataByKeysArray,   \* the array of the same name; an element may be a hole
  shouldValidateWithFallback,   \* the local of the same name
  fallbackByKeys,               \* the keys of fallbackByKeys
  objectFallbackInstalled,      \* Validator.createAndAppendFallback was called
  translatedVariants            \* the variants handed to defaultTransform

obVars == <<toTransform, objectPc, keyTransformers, transformedDataByKeysArray,
            shouldValidateWithFallback, fallbackByKeys, objectFallbackInstalled,
            translatedVariants>>

vars == <<dbVars, evVars, abVars, incVars, mgVars, unVars, reVars, cfVars, txVars, msVars, obVars>>

(* What the calls on the Databases instance leave alone. *)
notDb == <<evVars, abVars, incVars, mgVars, unVars, reVars, cfVars, txVars, msVars, obVars>>

(* What the events of a model leave alone. *)
notEv == <<dbVars, abVars, incVars, mgVars, unVars, reVars, cfVars, txVars, msVars, obVars>>

(* What the loading of abstracts leaves alone. *)
notAb == <<dbVars, evVars, incVars, mgVars, unVars, reVars, cfVars, txVars, msVars, obVars>>

(* What getIncludeStatement leaves alone. *)
notInc == <<dbVars, evVars, abVars, mgVars, unVars, reVars, cfVars, txVars, msVars, obVars>>

(* What the migrations manager leaves alone. *)
notMg == <<dbVars, evVars, abVars, incVars, unVars, reVars, cfVars, txVars, msVars, obVars>>

(* What the transformation of a union schema leaves alone. *)
notUn == <<dbVars, evVars, abVars, incVars, mgVars, reVars, cfVars, txVars, msVars, obVars>>

notRe == <<dbVars, evVars, abVars, incVars, mgVars, unVars, cfVars, txVars, msVars, obVars>>

notCf == <<dbVars, evVars, abVars, incVars, mgVars, unVars, reVars, txVars, msVars, obVars>>

notTx == <<dbVars, evVars, abVars, incVars, mgVars, unVars, reVars, cfVars, msVars, obVars>>

notMs == <<dbVars, evVars, abVars, incVars, mgVars, unVars, reVars, cfVars, txVars, obVars>>

notOb == <<dbVars, evVars, abVars, incVars, mgVars, unVars, reVars, cfVars, txVars, msVars>>

----------------------------------------------------------------------------
(* Bounds *)

NProcs == 2

Procs == 1 .. NProcs

DbNames == {"default", "replica"}

ModelNames == {"User", "Post", "Audit"}

(* settings.databases, as the ordered list of its keys (Object.entries);
   defined = FALSE is a settings object without `databases`. *)
SettingsChoices ==
  { [defined |-> FALSE, databases |-> <<>>],
    [defined |-> TRUE, databases |-> <<>>],
    [defined |-> TRUE, databases |-> <<"default">>],
    [defined |-> TRUE, databases |-> <<"replica">>],
    [defined |-> TRUE, databases |-> <<"default", "replica">>] }

(* options.managed and options.databases of the model classes. *)
ModelManaged(m) == m # "Audit"

ModelDatabases(m) == IF m = "Post" THEN {"default"} ELSE DbNames

(* A domain: its name, its path, what its getModels returns ("array", "record",
   or "none" when the domain defines no getModels) and the models, each under
   the key it is cached by. *)
DomainShapes ==
  { [name |-> "core", path |-> "/core", kind |-> "array",
     models |-> <<[key |-> "User", model |-> "User"]>>],
    [name |-> "blog", path |-> "/blog", kind |-> "record",
     models |-> <<[key |-> "Post", model |-> "Post"], [key |-> "Audit", model |-> "Audit"]>>],
    [name |-> "blog", path |-> "/blog", kind |-> "array",
     models |-> <<[key |-> "Post", model |-> "Post"], [key |-> "User", model |-> "User"]>>],
    [name |-> "shop", path |-> "shop", kind |-> "record",
     models |-> <<[key |-> "User", model |-> "User"]>>],
    [name |-> "logs", path |-> "/logs", kind |-> "none", models |-> <<>>] }

DefaultDomains ==
  << [name |-> "core", path |-> "/core", kind |-> "array",
      models |-> <<[key |-> "User", model |-> "User"]>>],
     [name |-> "blog", path |-> "/blog", kind |-> "record",
      models |-> <<[key |-> "Post", model |-> "Post"], [key |-> "Audit", model |-> "Audit"]>>] >>

----------------------------------------------------------------------------
(* Helpers *)

Range(s) == {s[i] : i \in DOMAIN s}

RECURSIVE SelectModels(_, _)
SelectModels(cache, d) ==
  IF cache = <<>> THEN <<>>
  ELSE LET m == Head(cache).model
           keep == ModelManaged(m) /\ d \in ModelDatabases(m)
       IN (IF keep THEN <<m>> ELSE <<>>) \o SelectModels(Tail(cache), d)

(* this.#cachedModelsByModelName[key] = entry: an object keeps the position of a
   key it already holds. *)
CacheSet(cache, entry) ==
  IF \E i \in DOMAIN cache : cache[i].modelName = entry.modelName
  THEN [i \in DOMAIN cache |->
          IF cache[i].modelName = entry.modelName THEN entry ELSE cache[i]]
  ELSE Append(cache, entry)

(* The entry cached for a model of a domain that returned an array; `from` records
   the domain that supplied it. *)
FoundModelOfArray(from, dom, m) ==
  [modelName |-> m.key, domainPath |-> dom.path, domainName |-> dom.name,
   model |-> m.model, from |-> from]

(* The entry cached for a model of a domain that returned a record of models. *)
FoundModelOfRecord(from, dom, m) ==
  [modelName |-> m.key, domainName |-> dom.path, domainPath |-> dom.path,
   model |-> m.model, from |-> from]

FoundModel(from, dom, m) ==
  IF dom.kind = "array" THEN FoundModelOfArray(from, dom, m)
  ELSE FoundModelOfRecord(from, dom, m)

RECURSIVE CacheDomainModels(_, _, _, _)
CacheDomainModels(cache, from, dom, i) ==
  IF i > Len(dom.models) THEN cache
  ELSE CacheDomainModels(CacheSet(cache, FoundModel(from, dom, dom.models[i])),
                         from, dom, i + 1)

IsConnectedAnswers(d) == IF engineMode[d] = "up" THEN {TRUE} ELSE BOOLEAN

IdleProc ==
  [op |-> "none", pc |-> "idle", defined |-> FALSE, dbs |-> <<>>, idx |-> 0,
   engine |-> "", exists |-> FALSE, models |-> <<>>, pending |-> {},
   seen |-> {}, snapshot |-> {}, closeInvoked |-> [d \in DbNames |-> 0],
   closePending |-> {}, closeResolved |-> {}]

InitOps == {"init", "migrate", "makeMigrations"}

(* A call that has returned keeps none of its locals. *)
Returned(pr, pc) == [IdleProc EXCEPT !.op = pr.op, !.pc = pc]

(* A call that stopped inside initializeDatabase: what is left is the engine it
   was initializing. *)
Stopped(pr, pc) == [Returned(pr, pc) EXCEPT !.engine = pr.engine, !.exists = pr.exists]

----------------------------------------------------------------------------
(* Synchronous parts, as the new record of the calling task. *)

(* getModels, up to its await: with an empty cache, one task per domain is
   started; a domain without getModels finishes at once. *)
BeginGetModels(pr, cache) ==
  [pr EXCEPT !.pc = "getModels",
             !.pending = IF Len(cache) > 0 THEN {}
                         ELSE {i \in DOMAIN domains : domains[i].kind # "none"}]

(* initializeDatabase, up to its first await. *)
BeginInitializeDatabase(pr, d, instances, cache) ==
  LET exists == d \in DOMAIN instances
      q == [pr EXCEPT !.engine = d, !.exists = exists]
  IN IF exists THEN BeginGetModels(q, cache) ELSE [q EXCEPT !.pc = "engine"]

(* Where the caller of init resumes. *)
AfterInit(pr) ==
  IF pr.op = "init" THEN Returned(pr, "done") ELSE [pr EXCEPT !.pc = "afterInit"]

InitGuardIgnoresInitializing == isInitialized = FALSE

InitGuard == isInitialized = FALSE /\ isInitializing = FALSE

(* init, from its call to its first await (or its return). *)
InitBody(p, o, s) ==
  LET pr == [proc[p] EXCEPT !.op = o, !.defined = s.defined, !.dbs = s.databases]
  IN IF InitGuard
     THEN IF s.defined
          THEN IF Len(s.databases) = 0
               THEN /\ isInitialized' = TRUE
                    /\ isInitializing' = FALSE
                    /\ proc' = [proc EXCEPT ![p] = AfterInit(pr)]
                    /\ UNCHANGED initializeDatabaseCalls
               ELSE /\ isInitializing' = TRUE
                    /\ UNCHANGED isInitialized
                    /\ initializeDatabaseCalls' =
                         [initializeDatabaseCalls EXCEPT ![s.databases[1]] = @ + 1]
                    /\ proc' = [proc EXCEPT ![p] =
                         BeginInitializeDatabase([pr EXCEPT !.idx = 1], s.databases[1],
                                                 initializedEngineInstances,
                                                 cachedModelsByModelName)]
          ELSE /\ isInitializing' = FALSE
               /\ UNCHANGED <<isInitialized, initializeDatabaseCalls>>
               /\ proc' = [proc EXCEPT ![p] = AfterInit(pr)]
     ELSE /\ UNCHANGED <<isInitialized, isInitializing, initializeDatabaseCalls>>
          /\ proc' = [proc EXCEPT ![p] = AfterInit(pr)]

----------------------------------------------------------------------------
(* Actions of the Databases instance *)

CallInit(p) ==
  /\ proc[p].pc = "idle"
  /\ \E s \in SettingsChoices : InitBody(p, "init", s)
  /\ UNCHANGED notDb
  /\ UNCHANGED <<initializedEngineInstances, cachedModelsByModelName, env>>

CallMigrate(p) ==
  /\ proc[p].pc = "idle"
  /\ \E s \in SettingsChoices : InitBody(p, "migrate", s)
  /\ UNCHANGED notDb
  /\ UNCHANGED <<initializedEngineInstances, cachedModelsByModelName, env>>

CallMakeMigrations(p) ==
  /\ proc[p].pc = "idle"
  /\ \E s \in SettingsChoices : InitBody(p, "makeMigrations", s)
  /\ UNCHANGED notDb
  /\ UNCHANGED <<initializedEngineInstances, cachedModelsByModelName, env>>

(* lazyInitializeEngine(engineName, settings, domains); "" names the first
   database of the settings. *)
CallLazyInitializeEngine(p) ==
  /\ proc[p].pc = "idle"
  /\ \E s \in SettingsChoices, engineName \in DbNames \cup {""} :
       LET pr == [proc[p] EXCEPT !.op = "lazy", !.defined = s.defined, !.dbs = s.databases]
           noFirst == engineName = "" /\ Len(s.databases) = 0
           engineNameToUse == IF engineName = "" /\ ~noFirst THEN s.databases[1] ELSE engineName
           isEngineNameDefined == ~noFirst /\ engineNameToUse \in Range(s.databases)
       IN IF InitGuard /\ s.defined /\ isEngineNameDefined
          THEN /\ proc' = [proc EXCEPT ![p] =
                    BeginInitializeDatabase(pr, engineNameToUse, initializedEngineInstances,
                                            cachedModelsByModelName)]
               /\ initializeDatabaseCalls' =
                    [initializeDatabaseCalls EXCEPT ![engineNameToUse] = @ + 1]
          ELSE /\ proc' = [proc EXCEPT ![p] = Returned(pr, "done")]
               /\ UNCHANGED initializeDatabaseCalls
  /\ UNCHANGED notDb
  /\ UNCHANGED <<isInitializing, isInitialized, initializedEngineInstances,
                 cachedModelsByModelName, env>>

CallGetModels(p) ==
  /\ proc[p].pc = "idle"
  /\ proc' = [proc EXCEPT ![p] =
       BeginGetModels([proc[p] EXCEPT !.op = "getModels"], cachedModelsByModelName)]
  /\ UNCHANGED notDb
  /\ UNCHANGED <<isInitializing, isInitialized, initializedEngineInstances,
                 cachedModelsByModelName, env, initializeDatabaseCalls>>

(* await Promise.resolve(databaseSettings.engine) resumes; getModels is called. *)
EngineResolved(p) ==
  /\ proc[p].pc = "engine"
  /\ proc' = [proc EXCEPT ![p] = BeginGetModels(proc[p], cachedModelsByModelName)]
  /\ UNCHANGED notDb
  /\ UNCHANGED <<isInitializing, isInitialized, initializedEngineInstances,
                 cachedModelsByModelName, env, initializeDatabaseCalls>>

(* await Promise.resolve(domain.getModels()) of one domain resumes. *)
DomainModelsResolved(p) ==
  /\ proc[p].pc = "getModels"
  /\ \E i \in proc[p].pending :
       /\ cachedModelsByModelName' = CacheDomainModels(cachedModelsByModelName, i, domains[i], 1)
       /\ proc' = [proc EXCEPT ![p].pending = @ \ {i}]
  /\ UNCHANGED notDb
  /\ UNCHANGED <<isInitializing, isInitialized, initializedEngineInstances, env,
                 initializeDatabaseCalls>>

(* getModels returns to a direct caller. *)
GetModelsReturn(p) ==
  /\ proc[p].pc = "getModels"
  /\ proc[p].op = "getModels"
  /\ proc[p].pending = {}
  /\ proc' = [proc EXCEPT ![p] = Returned(proc[p], "done")]
  /\ UNCHANGED notDb
  /\ UNCHANGED <<isInitializing, isInitialized, initializedEngineInstances,
                 cachedModelsByModelName, env, initializeDatabaseCalls>>

(* getModels returns to initializeDatabase: the models are filtered for the engine
   and isConnected is asked for the first time. *)
ModelsFiltered(p) ==
  /\ proc[p].pc = "getModels"
  /\ proc[p].op # "getModels"
  /\ proc[p].pending = {}
  /\ proc' = [proc EXCEPT ![p].pc = "isConnected",
                          ![p].models = SelectModels(cachedModelsByModelName, proc[p].engine)]
  /\ UNCHANGED notDb
  /\ UNCHANGED <<isInitializing, isInitialized, initializedEngineInstances,
                 cachedModelsByModelName, env, initializeDatabaseCalls>>

(* The first isConnected answers: the promise resolves only on true. *)
FirstIsConnected(p) ==
  /\ proc[p].pc = "isConnected"
  /\ \E isDatabaseConnected \in IsConnectedAnswers(proc[p].engine) :
       proc' = [proc EXCEPT ![p] = IF isDatabaseConnected
                                      THEN [proc[p] EXCEPT !.pc = "isConnectedAgain"]
                                      ELSE Stopped(proc[p], "waiting")]
  /\ UNCHANGED notDb
  /\ UNCHANGED <<isInitializing, isInitialized, initializedEngineInstances,
                 cachedModelsByModelName, env, initializeDatabaseCalls>>

(* The second isConnected answers: initializeModels is called, or the error is
   thrown, which init and its caller do not catch. *)
SecondIsConnected(p) ==
  /\ proc[p].pc = "isConnectedAgain"
  /\ \E isDatabaseConnected \in IsConnectedAnswers(proc[p].engine) :
       proc' = [proc EXCEPT ![p] = IF isDatabaseConnected
                                      THEN [proc[p] EXCEPT !.pc = "initializeModels"]
                                      ELSE Stopped(proc[p], "thrown")]
  /\ UNCHANGED notDb
  /\ UNCHANGED <<isInitializing, isInitialized, initializedEngineInstances,
                 cachedModelsByModelName, env, initializeDatabaseCalls>>

MergedProjectModels(instances, d, projectModels) ==
  (IF d \in DOMAIN instances THEN instances[d].projectModels ELSE <<>>) \o projectModels

(* initializeModels resolved: the entry of the engine is set. *)
ModelsInitialized(p) ==
  /\ proc[p].pc = "initializeModels"
  /\ LET d == proc[p].engine
     IN initializedEngineInstances' =
          (d :> [engineInstance |-> d,
                 projectModels |-> MergedProjectModels(initializedEngineInstances, d,
                                                       proc[p].models)])
          @@ initializedEngineInstances
  /\ proc' = [proc EXCEPT ![p].pc = "databaseInitialized"]
  /\ UNCHANGED notDb
  /\ UNCHANGED <<isInitializing, isInitialized, cachedModelsByModelName, env,
                 initializeDatabaseCalls>>

(* await this.initializeDatabase(...) resumes in init: the next database, or the
   end of init. *)
InitLoopNext(p) ==
  /\ proc[p].pc = "databaseInitialized"
  /\ proc[p].op \in InitOps
  /\ IF proc[p].idx < Len(proc[p].dbs)
     THEN /\ proc' = [proc EXCEPT ![p] =
                BeginInitializeDatabase([proc[p] EXCEPT !.idx = @ + 1],
                                        proc[p].dbs[proc[p].idx + 1],
                                        initializedEngineInstances, cachedModelsByModelName)]
          /\ initializeDatabaseCalls' =
               [initializeDatabaseCalls EXCEPT ![proc[p].dbs[proc[p].idx + 1]] = @ + 1]
          /\ UNCHANGED <<isInitializing, isInitialized>>
     ELSE /\ isInitialized' = TRUE
          /\ isInitializing' = FALSE
          /\ UNCHANGED initializeDatabaseCalls
          /\ proc' = [proc EXCEPT ![p] = AfterInit(proc[p])]
  /\ UNCHANGED notDb
  /\ UNCHANGED <<initializedEngineInstances, cachedModelsByModelName, env>>

(* await this.initializeDatabase(...) resumes in lazyInitializeEngine. *)
LazyReturn(p) ==
  /\ proc[p].pc = "databaseInitialized"
  /\ proc[p].op = "lazy"
  /\ proc' = [proc EXCEPT ![p] = Returned(proc[p], "done")]
  /\ UNCHANGED notDb
  /\ UNCHANGED <<isInitializing, isInitialized, initializedEngineInstances,
                 cachedModelsByModelName, env, initializeDatabaseCalls>>

(* await this.init(...) resumes in migrate / makeMigrations: Migrations is handed
   this.initializedEngineInstances. *)
InvokeMigrations(p) ==
  /\ proc[p].pc = "afterInit"
  /\ proc' = [proc EXCEPT ![p].pc = "migrations",
                          ![p].seen = DOMAIN initializedEngineInstances]
  /\ UNCHANGED notDb
  /\ UNCHANGED <<isInitializing, isInitialized, initializedEngineInstances,
                 cachedModelsByModelName, env, initializeDatabaseCalls>>

(* The engines close() calls engineInstance.close on. *)
EnginesToClose(instances) ==
  {d \in DOMAIN instances : hasClose[instances[d].engineInstance]}

(* close(), up to await Promise.all: every callback runs to its own await. *)
CallClose(p) ==
  /\ proc[p].pc = "idle"
  /\ LET targets == EnginesToClose(initializedEngineInstances)
     IN proc' = [proc EXCEPT ![p].op = "close", ![p].pc = "closing",
                             ![p].snapshot = DOMAIN initializedEngineInstances,
                             ![p].closePending = targets,
                             ![p].closeInvoked =
                                [d \in DbNames |-> IF d \in targets THEN @[d] + 1 ELSE @[d]]]
  /\ UNCHANGED notDb
  /\ UNCHANGED <<isInitializing, isInitialized, initializedEngineInstances,
                 cachedModelsByModelName, env, initializeDatabaseCalls>>

(* One engine's close settles. A rejection rejects Promise.all at once. *)
EngineCloseSettled(p) ==
  /\ proc[p].pc = "closing"
  /\ \E d \in proc[p].closePending, ok \in BOOLEAN :
       proc' = [proc EXCEPT ![p].closePending = @ \ {d},
                            ![p].closeResolved = IF ok THEN @ \cup {d} ELSE @,
                            ![p].pc = IF ok THEN "closing" ELSE "closeRejected"]
  /\ UNCHANGED notDb
  /\ UNCHANGED <<isInitializing, isInitialized, initializedEngineInstances,
                 cachedModelsByModelName, env, initializeDatabaseCalls>>

CloseWithoutAwait(pending) == TRUE

(* Promise.all(promises) is fulfilled once every promise is. *)
AllCloseSettled(pending) == pending = {}

(* await Promise.all(promises) resumes: close() resolves. *)
CloseResolved(p) ==
  /\ proc[p].pc = "closing"
  /\ AllCloseSettled(proc[p].closePending)
  /\ proc' = [proc EXCEPT ![p].pc = "closed"]
  /\ UNCHANGED notDb
  /\ UNCHANGED <<isInitializing, isInitialized, initializedEngineInstances,
                 cachedModelsByModelName, env, initializeDatabaseCalls>>

----------------------------------------------------------------------------
(* Model events: BaseModel.#initializeEvents *)

MaxEvents == 2

OperationTypes == {"onSet", "onRemove"}

(* What options.onSet / options.onRemove may be: nothing, a function, or an object
   with or without a handler and with preventCallerToBeTheHandled true, false or
   left out. *)
OptionForms ==
  {"undefined", "function", "objectHandlerOnly", "objectPreventTrue",
   "objectPreventFalse", "objectWithoutHandler"}

ModelOptionChoices == [OperationTypes -> OptionForms]

(* The argument lists of the events. "one" and "oneWithUndefined" differ only in a
   property that is undefined, which JSON.stringify leaves out. *)
ArgValues == {"one", "oneWithUndefined", "two"}

JsonStringify(args) ==
  IF args \in {"one", "oneWithUndefined"} THEN "[{\"id\":1}]" ELSE "[{\"id\":2}]"

HasEventHandler(form) ==
  form \in {"function", "objectHandlerOnly", "objectPreventTrue", "objectPreventFalse"}

IsToPreventCallerToBeTheHandled(form) ==
  IF form = "function" THEN TRUE
  ELSE IF form \in {"objectHandlerOnly", "objectPreventTrue", "objectPreventFalse",
                    "objectWithoutHandler"}
       THEN form = "objectPreventTrue"
       ELSE FALSE

InvokedWhenCallerDiffers(isToPrevent, isCallerDifferentThanHandler) ==
  isCallerDifferentThanHandler

(* Whether the listener calls eventHandler. *)
HandlerInvoked(isToPrevent, isCallerDifferentThanHandler) ==
  IF isToPrevent /\ isCallerDifferentThanHandler THEN TRUE
  ELSE IF ~isToPrevent THEN TRUE
  ELSE FALSE

(* The deliveries an emitted event causes: one per listener of its name. *)
Deliveries(id, o, caller, args) ==
  {[id |-> id, operationType |-> o, caller |-> caller, args |-> args,
    listener |-> l.engine] : l \in {x \in eventListeners : x.operationType = o}}

(* #initializeEvents(engineInstance) of the model, for an engine with an emitter:
   one listener per operation type that has a handler. The model is managed by
   one engine, whichever: it is initialized once. *)
InitializeEvents(e) ==
  /\ eventsInitialized = {}
  /\ eventsInitialized' = eventsInitialized \cup {e}
  /\ eventListeners' = eventListeners \cup
       {[operationType |-> o, engine |-> e] :
          o \in {x \in OperationTypes : HasEventHandler(modelOptions[x])}}
  /\ UNCHANGED <<modelOptions, stringfiedArgumentsOfEvents, eventsInFlight,
                 runningHandlers, eventLog, eventsEmitted>>
  /\ UNCHANGED notEv

(* An engine sets or removes data of the model: the emitter is told. *)
EmitEvent(o, caller, args) ==
  /\ eventsEmitted < MaxEvents
  /\ eventsEmitted' = eventsEmitted + 1
  /\ eventsInFlight' = eventsInFlight \cup Deliveries(eventsEmitted + 1, o, caller, args)
  /\ UNCHANGED <<modelOptions, eventListeners, stringfiedArgumentsOfEvents,
                 runningHandlers, eventLog, eventsInitialized>>
  /\ UNCHANGED notEv

(* The listener is called, up to its await of the handler, or to its end when the
   handler is not called. *)
DeliverEvent(ev) ==
  /\ ev \in eventsInFlight
  /\ LET isCallerDifferentThanHandler == ev.caller # ev.listener
         argsAsString == JsonStringify(ev.args)
         invoked == HandlerInvoked(
                      IsToPreventCallerToBeTheHandled(modelOptions[ev.operationType]),
                      isCallerDifferentThanHandler)
     IN /\ stringfiedArgumentsOfEvents' =
             IF invoked THEN stringfiedArgumentsOfEvents \cup {argsAsString}
             ELSE (stringfiedArgumentsOfEvents \cup {argsAsString}) \ {argsAsString}
        /\ runningHandlers' = IF invoked THEN runningHandlers \cup {ev} ELSE runningHandlers
        /\ eventLog' =
             {[operationType |-> ev.operationType,
               byListenersEngine |-> ~isCallerDifferentThanHandler,
               invoked |-> invoked]}
  /\ eventsInFlight' = eventsInFlight \ {ev}
  /\ UNCHANGED <<modelOptions, eventListeners, eventsInitialized, eventsEmitted>>
  /\ UNCHANGED notEv

(* A running handler saves the data it received on its own engine, which emits a
   set event with JSON-equal arguments. *)
HandlerSaves(h) ==
  /\ h \in runningHandlers
  /\ eventsEmitted < MaxEvents
  /\ \E args \in ArgValues :
       /\ JsonStringify(args) = JsonStringify(h.args)
       /\ eventsInFlight' = eventsInFlight \cup
            Deliveries(eventsEmitted + 1, "onSet", h.listener, args)
  /\ eventsEmitted' = eventsEmitted + 1
  /\ UNCHANGED <<modelOptions, eventListeners, stringfiedArgumentsOfEvents,
                 runningHandlers, eventLog, eventsInitialized>>
  /\ UNCHANGED notEv

(* The handler's promise resolves: the listener forgets the arguments. *)
HandlerResolved(h) ==
  /\ h \in runningHandlers
  /\ runningHandlers' = runningHandlers \ {h}
  /\ stringfiedArgumentsOfEvents' = stringfiedArgumentsOfEvents \ {JsonStringify(h.args)}
  /\ UNCHANGED <<modelOptions, eventListeners, eventsInFlight, eventLog,
                 eventsInitialized, eventsEmitted>>
  /\ UNCHANGED notEv

EvIdle ==
  /\ modelOptions = [o \in OperationTypes |-> "undefined"]
  /\ eventListeners = {}
  /\ stringfiedArgumentsOfEvents = {}
  /\ eventsInFlight = {}
  /\ runningHandlers = {}
  /\ eventLog = {}
  /\ eventsInitialized = {}
  /\ eventsEmitted = 0

----------------------------------------------------------------------------
(* Abstract models: BaseModel.__initializeAbstracts and __loadAbstract *)

MaxCallStack == 4

(* The model being initialized and the classes it may compose. *)
TheModel == "Profile"

Classes == {"Profile", "Timestamped", "Owned"}

FieldNames == {"id", "createdAt"}

AbstractLists ==
  {<<>>, <<"Timestamped">>, <<"Owned">>, <<"Profile">>, <<"Timestamped", "Owned">>}

FieldChoices ==
  {f \in [Classes -> SUBSET FieldNames] :
     /\ f["Profile"] \in {{}, {"id"}}
     /\ f["Timestamped"] \in {{}, {"createdAt"}, {"id"}}
     /\ f["Owned"] \in {{}, {"id"}}}

(* this.constructor.name, read in a static method: the constructor of a class is
   Function. *)
ConstructorName == "Function"

(* The loop over abstractFieldEntries: [thrown, field, fields]. The test reads the
   field in the fields of the abstract, where every entry of the loop is set. *)
RECURSIVE LoadAbstractFields(_, _, _)
LoadAbstractFields(abstractFields, remaining, fields) ==
  IF remaining = {} THEN [thrown |-> FALSE, field |-> "", fields |-> fields]
  ELSE LET fieldName == CHOOSE f \in remaining : TRUE
       IN IF fieldName \in abstractFields
          THEN [thrown |-> TRUE, field |-> fieldName, fields |-> fields]
          ELSE LoadAbstractFields(abstractFields, remaining \ {fieldName},
                                  fields \cup {fieldName})

(* A call of __loadAbstract(abstractConstructor, composedAbstracts), up to the
   loop over the abstracts of the abstract. *)
CallLoadAbstract(abstractConstructor) ==
  IF abstractConstructor \in Range(composedAbstracts)
  THEN /\ abstractOutcome' = "ModelCircularAbstractError"
       /\ abstractStack' = <<>>
       /\ abstractThrownBy' = [abstract |-> abstractConstructor, field |-> ""]
  ELSE IF Len(abstractStack) >= MaxCallStack
  THEN /\ abstractOutcome' = "RangeError"
       /\ abstractStack' = <<>>
       /\ abstractThrownBy' = [abstract |-> abstractConstructor, field |-> ""]
  ELSE /\ abstractStack' =
            Append([abstractStack EXCEPT ![Len(abstractStack)].next = @ + 1],
                   [class |-> abstractConstructor, next |-> 1])
       /\ UNCHANGED <<abstractOutcome, abstractThrownBy>>

(* __initializeAbstracts(), up to its loop. *)
InitializeAbstracts ==
  /\ abstractOutcome = "idle"
  /\ IF hasLoadedAbstracts
     THEN abstractOutcome' = "done" /\ UNCHANGED abstractStack
     ELSE /\ abstractOutcome' = "running"
          /\ abstractStack' = <<[class |-> TheModel, next |-> 1]>>
  /\ composedAbstracts' = <<ConstructorName>>
  /\ UNCHANGED <<abstractsOf, fieldsOf, modelFields, hasLoadedAbstracts, abstractThrownBy>>
  /\ UNCHANGED notAb

(* The next abstract of the class on top of the stack is loaded. *)
LoadNextAbstract ==
  /\ abstractOutcome = "running"
  /\ LET top == abstractStack[Len(abstractStack)]
     IN /\ top.next <= Len(abstractsOf[top.class])
        /\ CallLoadAbstract(abstractsOf[top.class][top.next])
  /\ UNCHANGED <<abstractsOf, fieldsOf, modelFields, composedAbstracts, hasLoadedAbstracts>>
  /\ UNCHANGED notAb

(* __loadAbstract, after the loop over the abstracts of the abstract: its fields
   are loaded into the model and the call returns. *)
LoadAbstractReturn ==
  /\ abstractOutcome = "running"
  /\ Len(abstractStack) > 1
  /\ LET top == abstractStack[Len(abstractStack)]
         loaded == LoadAbstractFields(fieldsOf[top.class], fieldsOf[top.class], modelFields)
     IN /\ top.next > Len(abstractsOf[top.class])
        /\ IF loaded.thrown
           THEN /\ abstractOutcome' = "ModelInvalidAbstractFieldError"
                /\ abstractStack' = <<>>
                /\ abstractThrownBy' = [abstract |-> top.class, field |-> loaded.field]
                /\ UNCHANGED modelFields
           ELSE /\ modelFields' = loaded.fields
                /\ abstractStack' = SubSeq(abstractStack, 1, Len(abstractStack) - 1)
                /\ UNCHANGED <<abstractOutcome, abstractThrownBy>>
  /\ UNCHANGED <<abstractsOf, fieldsOf, composedAbstracts, hasLoadedAbstracts>>
  /\ UNCHANGED notAb

(* __initializeAbstracts, after its loop. *)
InitializeAbstractsReturn ==
  /\ abstractOutcome = "running"
  /\ Len(abstractStack) = 1
  /\ abstractStack[1].next > Len(abstractsOf[TheModel])
  /\ hasLoadedAbstracts' = TRUE
  /\ abstractOutcome' = "done"
  /\ abstractStack' = <<>>
  /\ UNCHANGED <<abstractsOf, fieldsOf, modelFields, composedAbstracts, abstractThrownBy>>
  /\ UNCHANGED notAb

(* _fields() / _options() is called again on the model. *)
InitializeAbstractsAgain ==
  /\ abstractOutcome = "done"
  /\ abstractOutcome' = "idle"
  /\ UNCHANGED <<abstractsOf, fieldsOf, modelFields, composedAbstracts, hasLoadedAbstracts,
                 abstractStack, abstractThrownBy>>
  /\ UNCHANGED notAb

AbIdle ==
  /\ abstractsOf = [c \in Classes |-> <<>>]
  /\ fieldsOf = [c \in Classes |-> {}]
  /\ modelFields = {}
  /\ composedAbstracts = <<>>
  /\ hasLoadedAbstracts = FALSE
  /\ abstractStack = <<>>
  /\ abstractOutcome = "idle"
  /\ abstractThrownBy = [abstract |-> "", field |-> ""]

(* The classes whose abstracts are loaded when class c is: c's abstracts, theirs,
   and so on. *)
RECURSIVE AbstractsWithin(_, _)
AbstractsWithin(c, n) ==
  IF n = 0 THEN {}
  ELSE LET direct == Range(abstractsOf[c])
       IN direct \cup UNION {AbstractsWithin(a, n - 1) : a \in direct}

ComposedBy(c) == AbstractsWithin(c, Cardinality(Classes))

(* The abstracts of the model form a cycle. *)
HasCircularAbstract ==
  \/ TheModel \in ComposedBy(TheModel)
  \/ \E a \in ComposedBy(TheModel) : a \in ComposedBy(a)

----------------------------------------------------------------------------
(* SequelizeEngineQuery.getIncludeStatement *)

SequelizeModels == {"User", "Post", "Comment"}

(* model.associations: the targets of the associations of a model, in the order
   of Object.entries; the position stands for the association name. *)
AssociationLists ==
  {<<>>} \cup {<<a>> : a \in SequelizeModels}
         \cup {<<a, b>> : a \in SequelizeModels, b \in SequelizeModels}

IncludeEverything(parsed, target) == TRUE

(* modelAlreadyParsed.includes(association.target) === false *)
HasNotParsedModelYet(parsed, target) == target \notin Range(parsed)

(* includes.map((include) => include === association.target ? model : include) *)
NextIncludes(includes, target, model) ==
  {IF include = target THEN model ELSE include : include \in includes}

(* includeObject, once the recursive call has filled nextInclude: `include` is set
   only when nextInclude is not empty (the empty sequence stands for unset). *)
IncludeObject(target, associationName, nextInclude) ==
  [model |-> target, as |-> associationName, include |-> nextInclude]

IncludeTop == includeStack[Len(includeStack)]

(* get() calls getIncludeStatement(instance, args.includes, [], []). *)
CallGetIncludeStatement ==
  /\ includeOutcome = "idle"
  /\ includeOutcome' = "running"
  /\ modelAlreadyParsed' = <<queriedModel>>
  /\ includeStack' = <<[model |-> queriedModel, includes |-> queriedIncludes,
                        next |-> 1, includeStatement |-> <<>>]>>
  /\ UNCHANGED <<associations, queriedModel, queriedIncludes, includeResult>>
  /\ UNCHANGED notInc

(* An association whose target was parsed already or is not to be included. *)
SkipAssociation ==
  /\ includeOutcome = "running"
  /\ IncludeTop.next <= Len(associations[IncludeTop.model])
  /\ LET target == associations[IncludeTop.model][IncludeTop.next]
     IN ~(HasNotParsedModelYet(modelAlreadyParsed, target) /\ target \in IncludeTop.includes)
  /\ includeStack' = [includeStack EXCEPT ![Len(includeStack)].next = @ + 1]
  /\ UNCHANGED <<associations, queriedModel, queriedIncludes, modelAlreadyParsed,
                 includeResult, includeOutcome>>
  /\ UNCHANGED notInc

(* An association to include: getIncludeStatement is called for its target. *)
DescendAssociation ==
  /\ includeOutcome = "running"
  /\ IncludeTop.next <= Len(associations[IncludeTop.model])
  /\ LET target == associations[IncludeTop.model][IncludeTop.next]
     IN /\ HasNotParsedModelYet(modelAlreadyParsed, target)
        /\ target \in IncludeTop.includes
        /\ IF Len(includeStack) >= MaxCallStack
           THEN /\ includeOutcome' = "RangeError"
                /\ includeStack' = <<>>
                /\ UNCHANGED modelAlreadyParsed
           ELSE /\ modelAlreadyParsed' = Append(modelAlreadyParsed, target)
                /\ includeStack' =
                     Append(includeStack,
                            [model |-> target,
                             includes |-> NextIncludes(IncludeTop.includes, target,
                                                       IncludeTop.model),
                             next |-> 1, includeStatement |-> <<>>])
                /\ UNCHANGED includeOutcome
  /\ UNCHANGED <<associations, queriedModel, queriedIncludes, includeResult>>
  /\ UNCHANGED notInc

(* A recursive call returns: the include object is pushed. *)
ReturnToAssociation ==
  /\ includeOutcome = "running"
  /\ Len(includeStack) > 1
  /\ IncludeTop.next > Len(associations[IncludeTop.model])
  /\ LET caller == includeStack[Len(includeStack) - 1]
         includeObject == IncludeObject(IncludeTop.model, caller.next,
                                        IncludeTop.includeStatement)
     IN includeStack' =
          [SubSeq(includeStack, 1, Len(includeStack) - 1)
             EXCEPT ![Len(includeStack) - 1] =
               [caller EXCEPT !.next = @ + 1,
                              !.includeStatement = Append(@, includeObject)]]
  /\ UNCHANGED <<associations, queriedModel, queriedIncludes, modelAlreadyParsed,
                 includeResult, includeOutcome>>
  /\ UNCHANGED notInc

(* The outermost call returns to get(). *)
ReturnIncludeStatement ==
  /\ includeOutcome = "running"
  /\ Len(includeStack) = 1
  /\ IncludeTop.next > Len(associations[IncludeTop.model])
  /\ includeResult' = IncludeTop.includeStatement
  /\ includeOutcome' = "done"
  /\ includeStack' = <<>>
  /\ UNCHANGED <<associations, queriedModel, queriedIncludes, modelAlreadyParsed>>
  /\ UNCHANGED notInc

IncIdle ==
  /\ associations = [m \in SequelizeModels |-> <<>>]
  /\ queriedModel = "User"
  /\ queriedIncludes = {}
  /\ modelAlreadyParsed = <<>>
  /\ includeStack = <<>>
  /\ includeResult = <<>>
  /\ includeOutcome = "idle"

(* The models of an include statement, at any depth. *)
RECURSIVE IncludedModels(_)
IncludedModels(statement) ==
  UNION {{statement[i].model} \cup IncludedModels(statement[i].include) :
           i \in DOMAIN statement}

(* No include object of the statement has its own model, or one of `above`, below it. *)
RECURSIVE NoModelUnderItself(_, _)
NoModelUnderItself(statement, above) ==
  \A i \in DOMAIN statement :
    /\ statement[i].model \notin above
    /\ NoModelUnderItself(statement[i].include, above \cup {statement[i].model})

----------------------------------------------------------------------------
(* PalmaresMigrationsManager *)

MigrationNames == {"001_initial", "002_auto"}

IdleQuery == [engineName |-> "none", allMigrations |-> <<>>, created |-> "none"]

Reverse(s) == [i \in DOMAIN s |-> s[Len(s) + 1 - i]]

(* this.get({ search: { engineName } }, engineName) on a model ordered by '-id':
   the rows of the engine, newest first. *)
ManagerGet(rows, engineName) ==
  Reverse(SelectSeq(rows, LAMBDA row : row.engineName = engineName))

(* createMigration: the call of this.set is commented out, the method returns
   null and leaves the table as it is. *)
CreateMigration(migrationName, engineName) ==
  /\ createdMigrations' = [createdMigrations EXCEPT ![engineName] = migrationName]
  /\ UNCHANGED <<palmaresMigrations, lastMigrationQuery, lastMigrationName>>
  /\ UNCHANGED notMg

(* getLastMigrationName up to `await this.get(...)`. *)
CallGetLastMigrationName(engineName) ==
  /\ lastMigrationQuery = IdleQuery
  /\ lastMigrationQuery' = [engineName |-> engineName,
                            allMigrations |-> ManagerGet(palmaresMigrations, engineName),
                            created |-> createdMigrations[engineName]]
  /\ UNCHANGED <<palmaresMigrations, createdMigrations, lastMigrationName>>
  /\ UNCHANGED notMg

(* allMigrations.length > 0 ? allMigrations[0].migrationName : '' *)
GetLastMigrationNameReturn ==
  /\ lastMigrationQuery # IdleQuery
  /\ lastMigrationName' =
       [engineName |-> lastMigrationQuery.engineName,
        created |-> lastMigrationQuery.created,
        returned |-> IF Len(lastMigrationQuery.allMigrations) > 0
                     THEN lastMigrationQuery.allMigrations[1].migrationName
                     ELSE ""]
  /\ lastMigrationQuery' = IdleQuery
  /\ UNCHANGED <<palmaresMigrations, createdMigrations>>
  /\ UNCHANGED notMg

MgIdle ==
  /\ palmaresMigrations = <<>>
  /\ createdMigrations = [e \in DbNames |-> "none"]
  /\ lastMigrationQuery = IdleQuery
  /\ lastMigrationName = [engineName |-> "none", created |-> "none", returned |-> ""]

----------------------------------------------------------------------------
(* UnionSchema.__transformToAdapter *)

UnionSchemas == {"string", "number", "boolean"}

(* __transformToAdapter up to `await Promise.all(promises)`: every
   awaitableTransformer is started and runs up to its own await, then the fallback
   is decided on the flag as it stands. *)
CallTransformToAdapter ==
  /\ unionPc = "idle"
  /\ shouldBeHandledByFallback' = ~adapterHasUnion
  /\ memberTransformers' = [s \in UnionSchemas |-> "pending"]
  /\ fallbackInstalled' = shouldBeHandledByFallback'
  /\ unionPc' = "awaiting"
  /\ UNCHANGED <<adapterHasUnion, memberReportsFallback, transformedSchemas>>
  /\ UNCHANGED notUn

(* An awaitableTransformer resumes with the result of its schema. *)
AwaitableTransformerResumes(schema) ==
  /\ memberTransformers[schema] = "pending"
  /\ memberTransformers' = [memberTransformers EXCEPT ![schema] = "resolved"]
  /\ shouldBeHandledByFallback' =
       (shouldBeHandledByFallback \/ memberReportsFallback[schema])
  /\ transformedSchemas' = Append(transformedSchemas, schema)
  /\ UNCHANGED <<adapterHasUnion, memberReportsFallback, unionPc, fallbackInstalled>>
  /\ UNCHANGED notUn

(* Promise.all(promises) resolved: defaultTransform is returned. *)
UnionTransformed ==
  /\ unionPc = "awaiting"
  /\ \A s \in UnionSchemas : memberTransformers[s] = "resolved"
  /\ unionPc' = "transformed"
  /\ UNCHANGED <<adapterHasUnion, memberReportsFallback, memberTransformers,
                 shouldBeHandledByFallback, fallbackInstalled, transformedSchemas>>
  /\ UNCHANGED notUn

UnIdle ==
  /\ adapterHasUnion = TRUE
  /\ memberReportsFallback = [s \in UnionSchemas |-> FALSE]
  /\ unionPc = "idle"
  /\ memberTransformers = [s \in UnionSchemas |-> "unstarted"]
  /\ shouldBeHandledByFallback = FALSE
  /\ fallbackInstalled = FALSE
  /\ transformedSchemas = <<>>

----------------------------------------------------------------------------
(* ObjectSchema.removeExtraneous *)

SchemaKeys == {"id", "name"}

(* The keys a parsed value may own: keys of the schema, a key the schema does not
   know, and a key that names a property of Object.prototype. *)
ValueKeys == {"id", "name", "password", "constructor"}

PropertyValues == {"1", "John Doe"}

(* Properties every object literal inherits from Object.prototype. *)
ObjectPrototypeProperties == {"constructor", "toString", "hasOwnProperty", "valueOf"}

NoProperties == [key \in {} |-> "1"]

ObjectValues ==
  UNION {[keys -> PropertyValues] : keys \in SUBSET ValueKeys}

(* The values a parser may be handed: null, a string, undefined, or an object. *)
ParsedValues ==
  {[kind |-> kind, properties |-> NoProperties] : kind \in {"null", "string", "undefined"}}
    \cup {[kind |-> "object", properties |-> properties] : properties \in ObjectValues}

(* typeof value *)
TypeOf(value) == IF value.kind = "null" THEN "object" ELSE value.kind

(* key in this.__data, where __data is the object literal given to the schema:
   the `in` operator also finds inherited properties. *)
KeyInData(key, data) == key \in data \/ key \in ObjectPrototypeProperties

(* for (const key of Object.keys(value)) { if (key in this.__data) continue;
   delete value[key]; } *)
DeleteExtraneousKeys(value, data) ==
  [kind |-> value.kind,
   properties |-> [key \in {k \in DOMAIN value.properties : KeyInData(k, data)} |->
                     value.properties[key]]]

NotParsed == [value |-> [kind |-> "undefined", properties |-> NoProperties],
              preventNextParsers |-> TRUE, returned |-> FALSE]

(* removeExtraneous(): the parser is set on __parsers.medium. *)
RemoveExtraneous ==
  /\ mediumParsers' = mediumParsers \cup {"removeExtraneous"}
  /\ UNCHANGED <<objectData, parserInput, parserOutput>>
  /\ UNCHANGED notRe

(* The parser set by removeExtraneous runs on a value. *)
RemoveExtraneousParser ==
  /\ "removeExtraneous" \in mediumParsers
  /\ parserOutput = NotParsed
  /\ parserOutput' =
       IF TypeOf(parserInput) # "object" \/ parserInput.kind = "null"
       THEN [value |-> parserInput, preventNextParsers |-> FALSE, returned |-> TRUE]
       ELSE [value |-> DeleteExtraneousKeys(parserInput, objectData),
             preventNextParsers |-> FALSE, returned |-> TRUE]
  /\ UNCHANGED <<objectData, mediumParsers, parserInput>>
  /\ UNCHANGED notRe

ReIdle ==
  /\ objectData = {}
  /\ mediumParsers = {}
  /\ parserInput = [kind |-> "undefined", properties |-> NoProperties]
  /\ parserOutput = NotParsed

----------------------------------------------------------------------------
(* CharField *)

DefaultMaxLength == 255

(* The characters of the literal 'string'. *)
StringLiteral == <<"s", "t", "r", "i", "n", "g">>

UndefinedNumber == [type |-> "undefined", value |-> 0]

Number(n) == [type |-> "number", value |-> n]

UndefinedValue == [type |-> "undefined", value |-> <<>>]

NullValue == [type |-> "null", value |-> <<>>]

String(characters) == [type |-> "string", value |-> characters]

(* params.maxLength: absent or a number. *)
MaxLengthParams == {UndefinedNumber, Number(2), Number(6), Number(DefaultMaxLength)}

(* params.allowBlank and params.allowNull: absent or a boolean. *)
BooleanParams == {"undefined", "true", "false"}

(* params.defaultValue: absent, null, false, or a string of 2, 6 or 7 characters. *)
DefaultValueParams ==
  {UndefinedValue, NullValue, [type |-> "boolean", value |-> <<>>],
   String(<<"a", "b">>), String(StringLiteral),
   String(<<"d", "e", "f", "a", "u", "l", "t">>)}

CharFieldParams ==
  [maxLength : MaxLengthParams, allowBlank : BooleanParams,
   allowNull : BooleanParams, defaultValue : DefaultValueParams]

NoParams ==
  [maxLength |-> UndefinedNumber, allowBlank |-> "undefined",
   allowNull |-> "undefined", defaultValue |-> UndefinedValue]

NoField ==
  [typeName |-> "none", maxLength |-> 0, allowBlank |-> "undefined",
   allowNull |-> "undefined", defaultValue |-> UndefinedValue]

(* typeof params.x === 'boolean' ? params.x : fallback *)
BooleanOr(param, fallback) == IF param = "undefined" THEN fallback ELSE param

(* Field constructor: the attributes every field has. *)
FieldConstructor(params) ==
  [NoField EXCEPT !.typeName = "Field",
                  !.allowNull = BooleanOr(params.allowNull, "false"),
                  !.defaultValue = params.defaultValue]

(* TextField constructor *)
TextFieldConstructor(params) ==
  [FieldConstructor(params) EXCEPT !.typeName = "TextField",
                                   !.allowBlank = BooleanOr(params.allowBlank, "true")]

(* defaultValueAsString === 'string' *)
IsTheStringLiteral(defaultValue) ==
  defaultValue.type = "string" /\ defaultValue.value = StringLiteral

(* CharField constructor *)
CharFieldConstructor(params) ==
  LET maxLength == IF params.maxLength.type = "number" THEN params.maxLength.value
                   ELSE DefaultMaxLength
      isDefaultValueDefined ==
        \/ IsTheStringLiteral(params.defaultValue)
             /\ Len(params.defaultValue.value) <= maxLength
        \/ params.defaultValue = NullValue
  IN [TextFieldConstructor(params) EXCEPT
        !.typeName = "CharField",
        !.defaultValue = IF isDefaultValueDefined THEN params.defaultValue
                         ELSE UndefinedValue,
        !.maxLength = maxLength]

(* Field.constructorOptions: the attributes every field has. *)
FieldConstructorOptions(field) ==
  [NoParams EXCEPT !.allowNull = field.allowNull, !.defaultValue = field.defaultValue]

(* TextField.constructorOptions *)
TextFieldConstructorOptions(field) ==
  [FieldConstructorOptions(field) EXCEPT !.allowBlank = field.allowBlank]

(* CharField.constructorOptions: the options of TextField and allowBlank. *)
CharFieldConstructorOptions(field) ==
  [TextFieldConstructorOptions(field) EXCEPT !.allowBlank = field.allowBlank]

(* Field.compare *)
FieldCompare(this, field) ==
  /\ field.typeName = this.typeName
  /\ field.allowNull = this.allowNull
  /\ field.defaultValue = this.defaultValue

(* TextField.compare *)
TextFieldCompare(this, field) ==
  FieldCompare(this, field) /\ field.allowBlank = this.allowBlank

(* CharField.compare *)
CharFieldCompare(this, field) ==
  TextFieldCompare(this, field) /\ field.maxLength = this.maxLength

(* CharField.new(params) *)
CharFieldNew(params) ==
  /\ charField = NoField
  /\ charFieldParams' = params
  /\ charField' = CharFieldConstructor(params)
  /\ UNCHANGED <<charFieldOptions, charFieldClone, charFieldsCompare>>
  /\ UNCHANGED notCf

(* await field.constructorOptions() *)
CharFieldOptionsResolved ==
  /\ charField # NoField
  /\ charFieldOptions = NoParams
  /\ charFieldClone = NoField
  /\ charFieldOptions' = CharFieldConstructorOptions(charField)
  /\ UNCHANGED <<charFieldParams, charField, charFieldClone, charFieldsCompare>>
  /\ UNCHANGED notCf

(* CharField.new(options) *)
CharFieldNewFromOptions ==
  /\ charField # NoField
  /\ charFieldClone = NoField
  /\ charFieldOptions = CharFieldConstructorOptions(charField)
  /\ charFieldClone' = CharFieldConstructor(charFieldOptions)
  /\ UNCHANGED <<charFieldParams, charField, charFieldOptions, charFieldsCompare>>
  /\ UNCHANGED notCf

(* await clone.compare(field) *)
CharFieldsCompared ==
  /\ charFieldClone # NoField
  /\ charFieldsCompare = "none"
  /\ charFieldsCompare' =
       IF CharFieldCompare(charFieldClone, charField) THEN "true" ELSE "false"
  /\ UNCHANGED <<charFieldParams, charField, charFieldOptions, charFieldClone>>
  /\ UNCHANGED notCf

CfIdle ==
  /\ charFieldParams = NoParams
  /\ charField = NoField
  /\ charFieldOptions = NoParams
  /\ charFieldClone = NoField
  /\ charFieldsCompare = "none"

----------------------------------------------------------------------------
(* transaction of the Drizzle and the Sequelize engine *)

TxEngines == {"drizzle", "sequelize"}

(* The ORM's transaction(fn): it has no instance to call (Sequelize only, where
   the call is optional), throws, rejects before it calls fn, or calls fn and
   then commits, which may fail. *)
OrmBehaviours ==
  [begin : {"noInstance", "throws", "rejects", "ok"}, commit : {"ok", "rejects"}]

(* The callback returns a value, throws, or returns a promise that resolves or
   rejects later. *)
CallbackBehaviours ==
  [mode : {"returns", "throws", "resolvesLater", "rejectsLater"},
   result : {"saved", "created"}]

PendingPromise == [state |-> "pending", value |-> "none"]

NoOutcome == [state |-> "running", value |-> "none"]

SettleAgain(promise, state, value) == [state |-> state, value |-> value]

(* resolve(value) / reject(error) of a promise: only the first call settles it. *)
Settle(promise, state, value) ==
  IF promise.state = "pending" THEN [state |-> state, value |-> value] ELSE promise

(* The promise after resolve or reject, and the record of what it was settled to. *)
SettleTransaction(state, value) ==
  /\ txPromise' = Settle(txPromise, state, value)
  /\ txSettled' = IF txPromise' # txPromise THEN Append(txSettled, txPromise')
                  ELSE txSettled

(* How the callback completes. *)
OutcomeOf(callback) ==
  IF callback.mode \in {"returns", "resolvesLater"}
  THEN [state |-> "fulfilled", value |-> callback.result]
  ELSE [state |-> "rejected", value |-> callback.result]

(* transaction(callback, ...args) up to the return of the promise: the ORM's
   transaction is called inside try/catch. *)
CallTransaction ==
  /\ txPc = "idle"
  /\ IF txOrm.begin = "throws"
     THEN /\ SettleTransaction("rejected", "ormError")
          /\ txPc' = "done"
     ELSE /\ UNCHANGED <<txPromise, txSettled>>
          /\ txPc' = IF txOrm.begin = "noInstance" THEN "done" ELSE "beginning"
  /\ UNCHANGED <<txEngine, txOrm, txCallback, txCallbackOutcome>>
  /\ UNCHANGED notTx

(* The ORM fails to begin: its promise rejects; only Drizzle's has .catch(reject). *)
OrmRejectsBegin ==
  /\ txPc = "beginning"
  /\ txOrm.begin = "rejects"
  /\ IF txEngine = "drizzle"
     THEN SettleTransaction("rejected", "ormError")
     ELSE UNCHANGED <<txPromise, txSettled>>
  /\ txPc' = "done"
  /\ UNCHANGED <<txEngine, txOrm, txCallback, txCallbackOutcome>>
  /\ UNCHANGED notTx

(* The ORM calls the async function given to it, which calls the callback and
   awaits what it returns. *)
OrmCallsCallback ==
  /\ txPc = "beginning"
  /\ txOrm.begin = "ok"
  /\ IF txCallback.mode \in {"returns", "throws"}
     THEN /\ txCallbackOutcome' = OutcomeOf(txCallback)
          /\ txPc' = "awaited"
     ELSE /\ UNCHANGED txCallbackOutcome
          /\ txPc' = "callback"
  /\ UNCHANGED <<txEngine, txOrm, txCallback, txPromise, txSettled>>
  /\ UNCHANGED notTx

(* The promise returned by the callback settles. *)
CallbackCompletes ==
  /\ txPc = "callback"
  /\ txCallbackOutcome' = OutcomeOf(txCallback)
  /\ txPc' = "awaited"
  /\ UNCHANGED <<txEngine, txOrm, txCallback, txPromise, txSettled>>
  /\ UNCHANGED notTx

(* try { resolve(await callback(...)) } catch (e) { reject(e) } resumes. *)
CallbackAwaited ==
  /\ txPc = "awaited"
  /\ SettleTransaction(txCallbackOutcome.state, txCallbackOutcome.value)
  /\ txPc' = "committing"
  /\ UNCHANGED <<txEngine, txOrm, txCallback, txCallbackOutcome>>
  /\ UNCHANGED notTx

(* The ORM's promise settles after the function given to it returned. *)
OrmSettles ==
  /\ txPc = "committing"
  /\ IF txOrm.commit = "rejects" /\ txEngine = "drizzle"
     THEN SettleTransaction("rejected", "ormError")
     ELSE UNCHANGED <<txPromise, txSettled>>
  /\ txPc' = "done"
  /\ UNCHANGED <<txEngine, txOrm, txCallback, txCallbackOutcome>>
  /\ UNCHANGED notTx

TxIdle ==
  /\ txEngine = "drizzle"
  /\ txOrm = [begin |-> "ok", commit |-> "ok"]
  /\ txCallback = [mode |-> "returns", result |-> "saved"]
  /\ txPc = "idle"
  /\ txCallbackOutcome = NoOutcome
  /\ txPromise = PendingPromise
  /\ txSettled = <<>>

----------------------------------------------------------------------------
(* CreateModel, DeleteModel, ChangeModel and RenameModel on the migration state *)

StateModelNames == {"User", "Post", "Profile"}

FieldsChoices == {"idOnly", "idAndName"}

OptionsChoices == {"tableA", "tableB"}

DomainChoices == {[name |-> "core", path |-> "/core"], [name |-> "blog", path |-> "/blog"]}

(* A model of the state. *)
StateModel(name, domain, fields, options) ==
  [name |-> name, domainName |-> domain.name, domainPath |-> domain.path,
   fields |-> fields, options |-> options]

(* The states an operation may be replayed on: any of the models, each held under
   its own name, with any fields and options. *)
StateSnapshots ==
  UNION {[names -> FieldsChoices \X OptionsChoices] : names \in SUBSET StateModelNames}

SnapshotModels(snapshot) ==
  [n \in DOMAIN snapshot |->
     StateModel(n, [name |-> "core", path |-> "/core"], snapshot[n][1], snapshot[n][2])]

(* The model state.get makes for a name the state does not hold. *)
NewStateModel(name) ==
  [name |-> name, domainName |-> "", domainPath |-> "", fields |-> "none",
   options |-> "none"]

(* state.get(modelName): the model of that name, made when the state has none. *)
StateGet(models, name) ==
  IF name \in DOMAIN models THEN models
  ELSE [n \in DOMAIN models \cup {name} |->
          IF n = name THEN NewStateModel(name) ELSE models[n]]

(* state.set(modelName, model) *)
StateSet(models, name, model) ==
  [n \in DOMAIN models \cup {name} |-> IF n = name THEN model ELSE models[n]]

(* state.remove(modelName) *)
StateRemove(models, name) == [n \in DOMAIN models \ {name} |-> models[n]]

NoOperation ==
  [kind |-> "none", modelName |-> "", newModelName |-> "", fields |-> "none",
   options |-> "none", domainName |-> "", domainPath |-> ""]

Operations ==
  {[NoOperation EXCEPT !.kind = "CreateModel", !.modelName = n, !.fields = f,
                       !.options = o, !.domainName = d.name, !.domainPath = d.path] :
     n \in StateModelNames, f \in FieldsChoices, o \in OptionsChoices, d \in DomainChoices}
  \cup
  {[NoOperation EXCEPT !.kind = "ChangeModel", !.modelName = n, !.options = o,
                       !.domainName = d.name, !.domainPath = d.path] :
     n \in StateModelNames, o \in OptionsChoices, d \in DomainChoices}
  \cup
  {[NoOperation EXCEPT !.kind = "DeleteModel", !.modelName = n] : n \in StateModelNames}
  \cup
  {[NoOperation EXCEPT !.kind = "RenameModel", !.modelName = old, !.newModelName = new,
                       !.domainName = d.name, !.domainPath = d.path] :
     old \in StateModelNames, new \in StateModelNames, d \in DomainChoices}

CreatedModelWithoutFields(model, op) ==
  [model EXCEPT !.domainName = op.domainName, !.domainPath = op.domainPath,
                !.options = op.options]

(* What CreateModel.stateForwards assigns to the model it got. *)
CreatedModel(model, op) ==
  [model EXCEPT !.domainName = op.domainName, !.domainPath = op.domainPath,
                !.fields = op.fields, !.options = op.options]

(* What ChangeModel.stateForwards assigns to the model it got. *)
ChangedModel(model, op) ==
  [model EXCEPT !.domainName = op.domainName, !.domainPath = op.domainPath,
                !.options = op.options]

(* What RenameModel.stateForwards assigns to the model it got. *)
RenamedModel(model, op) ==
  [model EXCEPT !.name = op.newModelName, !.domainName = op.domainName,
                !.domainPath = op.domainPath]

(* stateForwards of CreateModel, ChangeModel or RenameModel, up to
   `await state.get(...)`. *)
StateForwardsGets(op) ==
  /\ operationPc = "idle"
  /\ op.kind \in {"CreateModel", "ChangeModel", "RenameModel"}
  /\ operation' = op
  /\ stateModels' = StateGet(stateModels, op.modelName)
  /\ operationPc' = "get"
  /\ UNCHANGED <<stateBefore, statePending>>
  /\ UNCHANGED notMs

(* CreateModel.stateForwards resumes with the model: the model held by the state
   is assigned to. *)
CreateModelStateForwards ==
  /\ operationPc = "get"
  /\ operation.kind = "CreateModel"
  /\ stateModels' = [stateModels EXCEPT ![operation.modelName] = CreatedModel(@, operation)]
  /\ operationPc' = "done"
  /\ UNCHANGED <<stateBefore, operation, statePending>>
  /\ UNCHANGED notMs

(* ChangeModel.stateForwards resumes with the model. *)
ChangeModelStateForwards ==
  /\ operationPc = "get"
  /\ operation.kind = "ChangeModel"
  /\ stateModels' = [stateModels EXCEPT ![operation.modelName] = ChangedModel(@, operation)]
  /\ operationPc' = "done"
  /\ UNCHANGED <<stateBefore, operation, statePending>>
  /\ UNCHANGED notMs

(* DeleteModel.stateForwards: state.remove is called and awaited. *)
DeleteModelStateForwards(op) ==
  /\ operationPc = "idle"
  /\ op.kind = "DeleteModel"
  /\ operation' = op
  /\ statePending' = {"remove"}
  /\ operationPc' = "all"
  /\ UNCHANGED <<stateModels, stateBefore>>
  /\ UNCHANGED notMs

(* RenameModel.stateForwards resumes with the model: the model (still held under
   the old name) is assigned to, then state.set and state.remove are both called
   and awaited together. *)
RenameModelStateForwards ==
  /\ operationPc = "get"
  /\ operation.kind = "RenameModel"
  /\ stateModels' = [stateModels EXCEPT ![operation.modelName] = RenamedModel(@, operation)]
  /\ statePending' = {"set", "remove"}
  /\ operationPc' = "all"
  /\ UNCHANGED <<stateBefore, operation>>
  /\ UNCHANGED notMs

(* state.set(newModelName, model) takes effect; model is the object the state
   holds under the old name. *)
StateSetTakesEffect ==
  /\ "set" \in statePending
  /\ stateModels' = StateSet(stateModels, operation.newModelName,
                             RenamedModel(StateGet(stateBefore, operation.modelName)[operation.modelName],
                                          operation))
  /\ statePending' = statePending \ {"set"}
  /\ UNCHANGED <<stateBefore, operation, operationPc>>
  /\ UNCHANGED notMs

(* state.remove(modelName) takes effect. *)
StateRemoveTakesEffect ==
  /\ "remove" \in statePending
  /\ stateModels' = StateRemove(stateModels, operation.modelName)
  /\ statePending' = statePending \ {"remove"}
  /\ UNCHANGED <<stateBefore, operation, operationPc>>
  /\ UNCHANGED notMs

(* await state.remove / await Promise.all resumes: stateForwards returns. *)
StateForwardsReturns ==
  /\ operationPc = "all"
  /\ statePending = {}
  /\ operationPc' = "done"
  /\ UNCHANGED <<stateModels, stateBefore, operation, statePending>>
  /\ UNCHANGED notMs

MsIdle ==
  /\ stateModels = [n \in {} |-> NewStateModel(n)]
  /\ stateBefore = stateModels
  /\ operation = NoOperation
  /\ operationPc = "idle"
  /\ statePending = {}

----------------------------------------------------------------------------
(* ObjectSchema.__transformToAdapter *)

MaxVariants == 2

ObjectKeys == {"id", "name", "role"}

NoKeys == [key \in {} |-> 0]

(* An element of transformedDataByKeysArray: for each key it holds, the variant of
   the key's schema (the same keys are in `transformed` and `asString`). An index
   never assigned is a hole. *)
Hole == [defined |-> FALSE, transformed |-> NoKeys]

VariantObject(transformed) == [defined |-> TRUE, transformed |-> transformed]

(* object[key] = value *)
SetKey(object, key, value) ==
  [k \in DOMAIN object \cup {key} |-> IF k = key THEN value ELSE object[k]]

(* array[index] = ..., on an array that may be shorter. *)
GrowTo(array, length) ==
  [i \in 1..(IF length > Len(array) THEN length ELSE Len(array)) |->
     IF i <= Len(array) THEN array[i] ELSE Hole]

(* The two loops of awaitableTransformer for one key with `count` variants, from
   the positions (arrayIndex, dataIndex) on; `length` is the length of the array
   before the loops. The element written is at (arrayIndex + 1) * dataIndex; a
   hole is first filled with a copy of the first element. *)
RECURSIVE AssignVariants(_, _, _, _, _, _)
AssignVariants(array, key, count, length, arrayIndex, dataIndex) ==
  IF arrayIndex >= length THEN array
  ELSE IF dataIndex >= count
       THEN AssignVariants(array, key, count, length, arrayIndex + 1, 0)
       ELSE LET indexOnTransformedDataByKeys == (arrayIndex + 1) * dataIndex
                grown == GrowTo(array, indexOnTransformedDataByKeys + 1)
                element == grown[indexOnTransformedDataByKeys + 1]
                base == IF element.defined THEN element.transformed
                        ELSE grown[1].transformed
            IN AssignVariants(
                 [grown EXCEPT ![indexOnTransformedDataByKeys + 1] =
                    VariantObject(SetKey(base, key, dataIndex + 1))],
                 key, count, length, arrayIndex, dataIndex + 1)

(* __transformToAdapter up to `await Promise.all(promises)`: an
   awaitableTransformer is started for every key whose value is a schema. *)
CallObjectTransformToAdapter ==
  /\ objectPc = "idle"
  /\ keyTransformers' = {key \in ObjectKeys : toTransform[key].isSchema}
  /\ transformedDataByKeysArray' = <<VariantObject(NoKeys)>>
  /\ shouldValidateWithFallback' = FALSE
  /\ fallbackByKeys' = {}
  /\ objectPc' = "awaiting"
  /\ UNCHANGED <<toTransform, objectFallbackInstalled, translatedVariants>>
  /\ UNCHANGED notOb

(* The awaitableTransformer of a key resumes with the variants of its schema. *)
KeyTransformerResumes(key) ==
  /\ key \in keyTransformers
  /\ keyTransformers' = keyTransformers \ {key}
  /\ shouldValidateWithFallback' =
       (shouldValidateWithFallback \/ toTransform[key].fallback)
  /\ fallbackByKeys' = IF toTransform[key].fallback THEN fallbackByKeys \cup {key}
                       ELSE fallbackByKeys
  /\ transformedDataByKeysArray' =
       AssignVariants(transformedDataByKeysArray, key, toTransform[key].variants,
                      Len(transformedDataByKeysArray), 0, 0)
  /\ UNCHANGED <<toTransform, objectPc, objectFallbackInstalled, translatedVariants>>
  /\ UNCHANGED notOb

(* await Promise.all(promises) resumes: the fallback is decided and every element
   of the array (map skips the holes) is handed to defaultTransform. *)
ObjectTransformed ==
  /\ objectPc = "awaiting"
  /\ keyTransformers = {}
  /\ objectFallbackInstalled' = shouldValidateWithFallback
  /\ translatedVariants' =
       SelectSeq(transformedDataByKeysArray, LAMBDA element : element.defined)
  /\ objectPc' = "translated"
  /\ UNCHANGED <<toTransform, keyTransformers, transformedDataByKeysArray,
                 shouldValidateWithFallback, fallbackByKeys>>
  /\ UNCHANGED notOb

ObIdle ==
  /\ toTransform = [key \in ObjectKeys |-> [isSchema |-> TRUE, variants |-> 1,
                                           fallback |-> FALSE]]
  /\ objectPc = "idle"
  /\ keyTransformers = {}
  /\ transformedDataByKeysArray = <<>>
  /\ shouldValidateWithFallback = FALSE
  /\ fallbackByKeys = {}
  /\ objectFallbackInstalled = FALSE
  /\ translatedVariants = <<>>

----------------------------------------------------------------------------
(* Specifications *)

DbInitShared ==
  /\ isInitializing = FALSE
  /\ isInitialized = FALSE
  /\ initializedEngineInstances = <<>>
  /\ cachedModelsByModelName = <<>>
  /\ proc = [p \in Procs |-> IdleProc]
  /\ initializeDatabaseCalls = [d \in DbNames |-> 0]

DbIdle ==
  /\ DbInitShared
  /\ domains = DefaultDomains
  /\ engineMode = [d \in DbNames |-> "up"]
  /\ hasClose = [d \in DbNames |-> TRUE]

(* The steps of initializeDatabase and of the loop of init. *)
InitializeDatabaseStep(p) ==
  \/ EngineResolved(p)
  \/ DomainModelsResolved(p)
  \/ ModelsFiltered(p)
  \/ FirstIsConnected(p)
  \/ SecondIsConnected(p)
  \/ ModelsInitialized(p)
  \/ InitLoopNext(p)

(* init, migrate and makeMigrations called on one Databases instance, in any
   order and interleaving, with engines that are connected or not. *)
Init ==
  /\ DbInitShared
  /\ domains = DefaultDomains
  /\ engineMode \in [DbNames -> {"up", "flaky"}]
  /\ hasClose = [d \in DbNames |-> TRUE]
  /\ EvIdle
  /\ AbIdle
  /\ IncIdle
  /\ MgIdle
  /\ UnIdle
  /\ ReIdle
  /\ CfIdle
  /\ TxIdle
  /\ MsIdle
  /\ ObIdle

Next ==
  \E p \in Procs :
    \/ CallInit(p)
    \/ CallMigrate(p)
    \/ CallMakeMigrations(p)
    \/ InitializeDatabaseStep(p)
    \/ InvokeMigrations(p)

Spec == Init /\ [][Next]_vars

(* init and close called on one Databases instance whose engines are connected
   and define close or not. *)
InitClose ==
  /\ DbInitShared
  /\ domains = DefaultDomains
  /\ engineMode = [d \in DbNames |-> "up"]
  /\ hasClose \in [DbNames -> BOOLEAN]
  /\ EvIdle
  /\ AbIdle
  /\ IncIdle
  /\ MgIdle
  /\ UnIdle
  /\ ReIdle
  /\ CfIdle
  /\ TxIdle
  /\ MsIdle
  /\ ObIdle

NextClose ==
  \E p \in Procs :
    \/ CallInit(p)
    \/ InitializeDatabaseStep(p)
    \/ CallClose(p)
    \/ EngineCloseSettled(p)
    \/ CloseResolved(p)

SpecClose == InitClose /\ [][NextClose]_vars

(* getModels called on one Databases instance with any two domains. *)
InitGetModels ==
  /\ DbInitShared
  /\ domains \in {<<a, b>> : a \in DomainShapes, b \in DomainShapes}
  /\ engineMode = [d \in DbNames |-> "up"]
  /\ hasClose = [d \in DbNames |-> TRUE]
  /\ EvIdle
  /\ AbIdle
  /\ IncIdle
  /\ MgIdle
  /\ UnIdle
  /\ ReIdle
  /\ CfIdle
  /\ TxIdle
  /\ MsIdle
  /\ ObIdle

NextGetModels ==
  \E p \in Procs :
    \/ CallGetModels(p)
    \/ DomainModelsResolved(p)
    \/ GetModelsReturn(p)

SpecGetModels == InitGetModels /\ [][NextGetModels]_vars

(* One model, with any onSet / onRemove options, initialized on the engines and
   receiving the events the engines and its own handlers emit. *)
InitEvents ==
  /\ modelOptions \in ModelOptionChoices
  /\ eventListeners = {}
  /\ stringfiedArgumentsOfEvents = {}
  /\ eventsInFlight = {}
  /\ runningHandlers = {}
  /\ eventLog = {}
  /\ eventsInitialized = {}
  /\ eventsEmitted = 0
  /\ DbIdle
  /\ AbIdle
  /\ IncIdle
  /\ MgIdle
  /\ UnIdle
  /\ ReIdle
  /\ CfIdle
  /\ TxIdle
  /\ MsIdle
  /\ ObIdle

NextEvents ==
  \/ \E e \in DbNames : InitializeEvents(e)
  \/ \E o \in OperationTypes, caller \in DbNames, args \in ArgValues :
       EmitEvent(o, caller, args)
  \/ \E ev \in eventsInFlight : DeliverEvent(ev)
  \/ \E h \in runningHandlers : HandlerSaves(h)
  \/ \E h \in runningHandlers : HandlerResolved(h)

SpecEvents == InitEvents /\ [][NextEvents]_vars

(* One model with any fields and abstracts, whose abstracts are initialized. *)
InitAbstracts ==
  /\ abstractsOf \in [Classes -> AbstractLists]
  /\ fieldsOf \in FieldChoices
  /\ modelFields = fieldsOf[TheModel]
  /\ composedAbstracts = <<>>
  /\ hasLoadedAbstracts = FALSE
  /\ abstractStack = <<>>
  /\ abstractOutcome = "idle"
  /\ abstractThrownBy = [abstract |-> "", field |-> ""]
  /\ DbIdle
  /\ EvIdle
  /\ IncIdle
  /\ MgIdle
  /\ UnIdle
  /\ ReIdle
  /\ CfIdle
  /\ TxIdle
  /\ MsIdle
  /\ ObIdle

NextAbstracts ==
  \/ InitializeAbstracts
  \/ LoadNextAbstract
  \/ LoadAbstractReturn
  \/ InitializeAbstractsReturn
  \/ InitializeAbstractsAgain

SpecAbstracts == InitAbstracts /\ [][NextAbstracts]_vars

(* get() on the model User of any association graph of three models, with any
   includes. A call that can take a step does. *)
InitInclude ==
  /\ associations \in [SequelizeModels -> AssociationLists]
  /\ queriedModel = "User"
  /\ queriedIncludes \in SUBSET SequelizeModels
  /\ modelAlreadyParsed = <<>>
  /\ includeStack = <<>>
  /\ includeResult = <<>>
  /\ includeOutcome = "idle"
  /\ DbIdle
  /\ EvIdle
  /\ AbIdle
  /\ MgIdle
  /\ UnIdle
  /\ ReIdle
  /\ CfIdle
  /\ TxIdle
  /\ MsIdle
  /\ ObIdle

NextInclude ==
  \/ CallGetIncludeStatement
  \/ SkipAssociation
  \/ DescendAssociation
  \/ ReturnToAssociation
  \/ ReturnIncludeStatement

SpecInclude == InitInclude /\ [][NextInclude]_vars /\ WF_vars(NextInclude)

(* createMigration and getLastMigrationName on the palmares_migrations table of a
   fresh database. *)
InitMigrationsManager ==
  /\ MgIdle
  /\ DbIdle
  /\ EvIdle
  /\ AbIdle
  /\ IncIdle
  /\ UnIdle
  /\ ReIdle
  /\ CfIdle
  /\ TxIdle
  /\ MsIdle
  /\ ObIdle

NextMigrationsManager ==
  \/ \E migrationName \in MigrationNames, engineName \in DbNames :
       CreateMigration(migrationName, engineName)
  \/ \E engineName \in DbNames : CallGetLastMigrationName(engineName)
  \/ GetLastMigrationNameReturn

SpecMigrationsManager == InitMigrationsManager /\ [][NextMigrationsManager]_vars

(* The transformation of a union of three schemas, for any adapter and any
   answers of the schemas, resolving in any order. *)
InitUnion ==
  /\ adapterHasUnion \in BOOLEAN
  /\ memberReportsFallback \in [UnionSchemas -> BOOLEAN]
  /\ unionPc = "idle"
  /\ memberTransformers = [s \in UnionSchemas |-> "unstarted"]
  /\ shouldBeHandledByFallback = FALSE
  /\ fallbackInstalled = FALSE
  /\ transformedSchemas = <<>>
  /\ DbIdle
  /\ EvIdle
  /\ AbIdle
  /\ IncIdle
  /\ MgIdle
  /\ ReIdle
  /\ CfIdle
  /\ TxIdle
  /\ MsIdle
  /\ ObIdle

NextUnion ==
  \/ CallTransformToAdapter
  \/ \E schema \in UnionSchemas : AwaitableTransformerResumes(schema)
  \/ UnionTransformed

SpecUnion == InitUnion /\ [][NextUnion]_vars

(* The removeExtraneous parser of a schema over any of the schema keys, on any
   parsed value. *)
InitRemoveExtraneous ==
  /\ objectData \in SUBSET SchemaKeys
  /\ mediumParsers = {}
  /\ parserInput \in ParsedValues
  /\ parserOutput = NotParsed
  /\ DbIdle
  /\ EvIdle
  /\ AbIdle
  /\ IncIdle
  /\ MgIdle
  /\ UnIdle
  /\ CfIdle
  /\ TxIdle
  /\ MsIdle
  /\ ObIdle

NextRemoveExtraneous ==
  \/ RemoveExtraneous
  \/ RemoveExtraneousParser

SpecRemoveExtraneous == InitRemoveExtraneous /\ [][NextRemoveExtraneous]_vars

(* A CharField created with any params, recreated from its constructorOptions
   and compared with the original. *)
InitCharField ==
  /\ CfIdle
  /\ DbIdle
  /\ EvIdle
  /\ AbIdle
  /\ IncIdle
  /\ MgIdle
  /\ UnIdle
  /\ ReIdle
  /\ TxIdle
  /\ MsIdle
  /\ ObIdle

NextCharField ==
  \/ \E params \in CharFieldParams : CharFieldNew(params)
  \/ CharFieldOptionsResolved
  \/ CharFieldNewFromOptions
  \/ CharFieldsCompared

SpecCharField == InitCharField /\ [][NextCharField]_vars

(* One call of transaction on either engine, for every behaviour of the ORM and
   of the callback. Drizzle always has an instance to call. *)
InitTransaction ==
  /\ txEngine \in TxEngines
  /\ txOrm \in OrmBehaviours
  /\ txEngine = "drizzle" => txOrm.begin # "noInstance"
  /\ txCallback \in CallbackBehaviours
  /\ txPc = "idle"
  /\ txCallbackOutcome = NoOutcome
  /\ txPromise = PendingPromise
  /\ txSettled = <<>>
  /\ DbIdle
  /\ EvIdle
  /\ AbIdle
  /\ IncIdle
  /\ MgIdle
  /\ UnIdle
  /\ ReIdle
  /\ CfIdle
  /\ MsIdle
  /\ ObIdle

NextTransaction ==
  \/ CallTransaction
  \/ OrmRejectsBegin
  \/ OrmCallsCallback
  \/ CallbackCompletes
  \/ CallbackAwaited
  \/ OrmSettles

SpecTransaction == InitTransaction /\ [][NextTransaction]_vars

(* init called on one Databases instance, in any order and interleaving, with
   engines that are connected or not. *)
InitInit ==
  /\ DbInitShared
  /\ domains = DefaultDomains
  /\ engineMode \in [DbNames -> {"up", "flaky"}]
  /\ hasClose = [d \in DbNames |-> TRUE]
  /\ EvIdle
  /\ AbIdle
  /\ IncIdle
  /\ MgIdle
  /\ UnIdle
  /\ ReIdle
  /\ CfIdle
  /\ TxIdle
  /\ MsIdle
  /\ ObIdle

NextInit ==
  \E p \in Procs :
    \/ CallInit(p)
    \/ InitializeDatabaseStep(p)

SpecInit == InitInit /\ [][NextInit]_vars

(* One model operation replayed on any migration state. *)
InitMigrationState ==
  /\ \E snapshot \in StateSnapshots : stateModels = SnapshotModels(snapshot)
  /\ stateBefore = stateModels
  /\ operation = NoOperation
  /\ operationPc = "idle"
  /\ statePending = {}
  /\ DbIdle
  /\ EvIdle
  /\ AbIdle
  /\ IncIdle
  /\ MgIdle
  /\ UnIdle
  /\ ReIdle
  /\ CfIdle
  /\ TxIdle
  /\ ObIdle

NextMigrationState ==
  \/ \E op \in Operations : StateForwardsGets(op)
  \/ CreateModelStateForwards
  \/ ChangeModelStateForwards
  \/ \E op \in Operations : DeleteModelStateForwards(op)
  \/ RenameModelStateForwards
  \/ StateSetTakesEffect
  \/ StateRemoveTakesEffect
  \/ StateForwardsReturns

SpecMigrationState == InitMigrationState /\ [][NextMigrationState]_vars

(* The transformation of an object of three keys: any of the values is a schema
   or not, translates to one or more variants and asks for the fallback or not;
   the keys resolve in any order. *)
InitObject ==
  /\ toTransform \in [ObjectKeys -> [isSchema : BOOLEAN, variants : 1..MaxVariants,
                                     fallback : BOOLEAN]]
  /\ \A key \in ObjectKeys : ~toTransform[key].isSchema =>
       toTransform[key].variants = 1 /\ ~toTransform[key].fallback
  /\ objectPc = "idle"
  /\ keyTransformers = {}
  /\ transformedDataByKeysArray = <<>>
  /\ shouldValidateWithFallback = FALSE
  /\ fallbackByKeys = {}
  /\ objectFallbackInstalled = FALSE
  /\ translatedVariants = <<>>
  /\ DbIdle
  /\ EvIdle
  /\ AbIdle
  /\ IncIdle
  /\ MgIdle
  /\ UnIdle
  /\ ReIdle
  /\ CfIdle
  /\ TxIdle
  /\ MsIdle

NextObject ==
  \/ CallObjectTransformToAdapter
  \/ \E key \in ObjectKeys : KeyTransformerResumes(key)
  \/ ObjectTransformed

SpecObject == InitObject /\ [][NextObject]_vars

----------------------------------------------------------------------------
(* Claims about the Databases instance *)

(* C1: when Migrations.migrate / Migrations.makeMigrations is invoked by a call of
   Databases.migrate / makeMigrations whose settings name at least one database
   and whose engines are all connected, every database of those settings has an
   entry in initializedEngineInstances. *)
C1_MigrationsSeeEveryDatabase ==
  \A p \in Procs :
    ( /\ proc[p].pc = "migrations"
      /\ proc[p].defined
      /\ proc[p].dbs # <<>>
      /\ \A d \in Range(proc[p].dbs) : engineMode[d] = "up" )
    => Range(proc[p].dbs) \subseteq proc[p].seen

(* C2: a call of close invokes close exactly once on every engine held in
   initializedEngineInstances that defines close and on no other, and it resolves
   only when every one of those close calls has resolved. *)
C2_CloseOncePerEngineThenResolves ==
  \A p \in Procs :
    proc[p].op = "close" =>
      /\ \A d \in DbNames :
            proc[p].closeInvoked[d] =
              IF d \in proc[p].snapshot /\ hasClose[d] THEN 1 ELSE 0
      /\ proc[p].pc = "closed" =>
            proc[p].closeResolved = {d \in proc[p].snapshot : hasClose[d]}

(* A close call resolved with two engines held, one of which defines close. *)
C2_Witness ==
  \E p \in Procs :
    /\ proc[p].pc = "closed"
    /\ proc[p].snapshot = DbNames
    /\ \E d \in DbNames : hasClose[d] /\ d \in proc[p].closeResolved
    /\ \E d \in DbNames : ~hasClose[d]

(* C8: every entry getModels caches for a model supplied by a domain carries the
   name and the path of that domain. *)
C8_CachedEntryNamesItsDomain ==
  \A i \in DOMAIN cachedModelsByModelName :
    LET e == cachedModelsByModelName[i]
    IN /\ e.domainName = domains[e.from].name
       /\ e.domainPath = domains[e.from].path

----------------------------------------------------------------------------
(* Claims about the events of a model *)

(* C3: while the handler of an operation type is executing for some arguments, it
   is not executing a second time for JSON-equal arguments. *)
C3_SameDataNotHandledTwice ==
  \A h1 \in runningHandlers, h2 \in runningHandlers :
    (h1 # h2 /\ h1.operationType = h2.operationType)
    => JsonStringify(h1.args) # JsonStringify(h2.args)

(* C4: a delivered event invokes the handler exactly when caller prevention is off
   or the emitting engine is not the listener's engine; an option given as a plain
   function has caller prevention on. *)
C4_HandlerInvokedUnlessPreventedCaller ==
  \A r \in eventLog :
    LET form == modelOptions[r.operationType]
        prevention == form = "function" \/ form = "objectPreventTrue"
    IN r.invoked <=> (~prevention \/ ~r.byListenersEngine)

(* A plain function option ignored an event of its own engine while a handler
   of the other operation type, given without prevention, was running for an
   event of its own engine. *)
C4_Witness ==
  /\ \E r \in eventLog :
       /\ modelOptions[r.operationType] = "function"
       /\ r.byListenersEngine
       /\ ~r.invoked
  /\ \E h \in runningHandlers :
       /\ modelOptions[h.operationType] = "objectHandlerOnly"
       /\ h.operationType = "onRemove"
       /\ h.caller = h.listener

----------------------------------------------------------------------------
(* Claims about abstract models *)

(* C5: loading an abstract throws ModelInvalidAbstractFieldError only when one of
   its field names is already defined on the model, and when the abstracts are
   loaded the model has every field of every abstract it composes. *)
C5_AbstractFieldsAddedUnlessClash ==
  /\ abstractOutcome = "ModelInvalidAbstractFieldError"
       => abstractThrownBy.field \in modelFields
  /\ (abstractOutcome = "done" /\ hasLoadedAbstracts)
       => \A a \in ComposedBy(TheModel) : fieldsOf[a] \subseteq modelFields

(* C6: when the abstracts of the model form a cycle (and no abstract defines a
   field, so that no field error ends the loading first), initializing them ends
   with ModelCircularAbstractError. *)
C6_CircularAbstractsThrowCircularError ==
  (HasCircularAbstract /\ \A c \in Classes \ {TheModel} : fieldsOf[c] = {})
  => abstractOutcome \in {"idle", "running", "ModelCircularAbstractError"}

----------------------------------------------------------------------------
(* Claims about the include statement *)

IncludeStatementIsSound ==
  includeOutcome = "done" =>
    /\ queriedModel \notin IncludedModels(includeResult)
    /\ NoModelUnderItself(includeResult, {})
    /\ IncludedModels(includeResult) \subseteq queriedIncludes

(* C7: getIncludeStatement terminates for every association graph, without
   exhausting the call stack, and the include tree it returns never holds the
   queried model, never holds a model under itself and holds only models of
   `includes`. *)
C7_IncludeStatementTerminatesAndIsSound ==
  /\ [](includeOutcome # "RangeError" /\ IncludeStatementIsSound)
  /\ <>(includeOutcome = "done")

(* A query on a self-referencing model that is also referenced back by a model it
   includes returned an include tree two levels deep. *)
C7_Witness ==
  /\ includeOutcome = "done"
  /\ "User" \in Range(associations["User"])
  /\ \E i \in DOMAIN includeResult :
       /\ includeResult[i].include # <<>>
       /\ "User" \in Range(associations[includeResult[i].model])
       /\ \E j \in DOMAIN includeResult[i].include :
            includeResult[i].model \in Range(associations[includeResult[i].include[j].model])

----------------------------------------------------------------------------
(* Claims about the migrations manager *)

(* C9: a getLastMigrationName(engine) called after createMigration(name, engine)
   completed returns that name, and returns '' when no migration was recorded
   for the engine. *)
C9_LastMigrationNameIsTheCreatedOne ==
  lastMigrationName.engineName # "none" =>
    lastMigrationName.returned =
      (IF lastMigrationName.created = "none" THEN "" ELSE lastMigrationName.created)

----------------------------------------------------------------------------
(* Claims about the union schema *)

(* C10: once the union is transformed the fallback validator is installed
   whenever the adapter has no union translator or a schema of the union reports
   that it needs fallback handling, in whatever order the schemas resolve. *)
C10_FallbackInstalledWhenNeeded ==
  unionPc = "transformed" =>
    ((~adapterHasUnion \/ \E s \in UnionSchemas : memberReportsFallback[s])
       => fallbackInstalled)

----------------------------------------------------------------------------
(* Claims about removeExtraneous *)

(* C11: after the removeExtraneous parser ran on an object, the keys of the value
   are exactly the original keys that are keys of the schema, with their values
   unchanged; null and values that are not objects pass unchanged; the parser
   never prevents the next parsers. *)
C11_OnlySchemaKeysRemain ==
  parserOutput.returned =>
    /\ parserOutput.preventNextParsers = FALSE
    /\ IF parserInput.kind = "object"
       THEN /\ parserOutput.value.kind = "object"
            /\ DOMAIN parserOutput.value.properties =
                 DOMAIN parserInput.properties \cap objectData
            /\ \A key \in DOMAIN parserOutput.value.properties :
                 parserOutput.value.properties[key] = parserInput.properties[key]
       ELSE parserOutput.value = parserInput

----------------------------------------------------------------------------
(* Claims about CharField *)

(* C12: a CharField created from the constructorOptions of a CharField compares
   equal to it. *)
C12_CloneFromConstructorOptionsIsEqual ==
  charFieldsCompare # "none" => charFieldsCompare = "true"

(* C13: the CharField constructor keeps a defaultValue that is null or a string
   of at most maxLength characters and replaces any other by undefined;
   maxLength is the number given, or 255. *)
C13_DefaultValueKeptWhenItFits ==
  charField # NoField =>
    /\ charField.maxLength =
         (IF charFieldParams.maxLength.type = "number"
          THEN charFieldParams.maxLength.value ELSE DefaultMaxLength)
    /\ charField.defaultValue =
         (IF \/ charFieldParams.defaultValue = NullValue
             \/ /\ charFieldParams.defaultValue.type = "string"
                /\ Len(charFieldParams.defaultValue.value) <= charField.maxLength
          THEN charFieldParams.defaultValue
          ELSE UndefinedValue)

----------------------------------------------------------------------------
(* Claims about transaction *)

(* C14: once the callback has completed and the engine has resumed from awaiting
   it, the promise returned by transaction is fulfilled with the value the
   callback returned, or rejected with the error it threw; the promise is
   settled at most once. *)
C14_TransactionSettlesAsTheCallback ==
  /\ Len(txSettled) <= 1
  /\ txPc \in {"committing", "done"} /\ txCallbackOutcome # NoOutcome
       => txPromise = txCallbackOutcome

(* A Drizzle transaction whose callback resolved later and whose commit failed
   afterwards: the promise holds the callback's value. *)
C14_Witness ==
  /\ txEngine = "drizzle"
  /\ txPc = "done"
  /\ txOrm.commit = "rejects"
  /\ txCallback.mode = "resolvesLater"
  /\ txPromise = [state |-> "fulfilled", value |-> txCallback.result]

----------------------------------------------------------------------------
(* Claims about init and initializeDatabase *)

(* The calls of init that are inside the loop over the databases. *)
IteratingInits ==
  {p \in Procs : /\ proc[p].op \in InitOps
                 /\ proc[p].pc \in {"engine", "getModels", "isConnected", "isConnectedAgain",
                                    "initializeModels", "databaseInitialized", "waiting"}}

(* C15: over any interleaving of init calls initializeDatabase is invoked at most
   once per database name, at most one init call is iterating over the databases
   at any time, and once isInitialized is true no init call invokes
   initializeDatabase. *)
C15_EachDatabaseInitializedAtMostOnce ==
  /\ [](/\ \A d \in DbNames : initializeDatabaseCalls[d] <= 1
        /\ Cardinality(IteratingInits) <= 1)
  /\ [][isInitialized => initializeDatabaseCalls' = initializeDatabaseCalls]_vars

(* An init call went through both databases while another init call came and
   returned. *)
C15_Witness ==
  \E p \in Procs, q \in Procs :
    /\ p # q
    /\ proc[p].pc = "databaseInitialized"
    /\ proc[p].idx = Len(proc[p].dbs)
    /\ proc[q].op = "init"
    /\ proc[q].pc = "done"
    /\ \A d \in DbNames : initializeDatabaseCalls[d] = 1

(* C16: when every started init call has returned or thrown, isInitializing is
   false. *)
C16_NotInitializingWhenNoInitRuns ==
  (\A p \in Procs : proc[p].pc \in {"idle", "done", "thrown"}) => isInitializing = FALSE

(* C17: a call of initializeDatabase whose engine reported that it is not
   connected has thrown and the engine has no entry because of it; a call whose
   engine is connected has set the entry of the engine, with the engine instance
   and its models after the earlier ones. *)
C17_ThrowsWhenNotConnected ==
  \A p \in Procs :
    /\ proc[p].pc \in {"waiting", "thrown"} =>
         /\ proc[p].pc = "thrown"
         /\ proc[p].engine \notin DOMAIN initializedEngineInstances
    /\ proc[p].pc = "databaseInitialized" =>
         /\ proc[p].engine \in DOMAIN initializedEngineInstances
         /\ initializedEngineInstances[proc[p].engine] =
              [engineInstance |-> proc[p].engine, projectModels |-> proc[p].models]

----------------------------------------------------------------------------
(* Claims about the model operations *)

(* The models other than `names` are as they were when the operation was called. *)
OtherModelsUnchanged(names) ==
  /\ DOMAIN stateModels \ names = DOMAIN stateBefore \ names
  /\ \A n \in DOMAIN stateModels \ names : stateModels[n] = stateBefore[n]

(* C18: after RenameModel(oldName, newName).stateForwards on a state that holds
   oldName, the state holds the model under newName with name newName, holds no
   model under oldName (unless the names are equal, when the model is still
   there), and every other model is unchanged. *)
C18_RenameMovesTheModel ==
  (/\ operationPc = "done"
   /\ operation.kind = "RenameModel"
   /\ operation.modelName \in DOMAIN stateBefore)
    => /\ operation.newModelName \in DOMAIN stateModels
       /\ stateModels[operation.newModelName].name = operation.newModelName
       /\ operation.modelName # operation.newModelName
            => operation.modelName \notin DOMAIN stateModels
       /\ OtherModelsUnchanged({operation.modelName, operation.newModelName})

(* C19: after CreateModel.stateForwards the model has the fields, options and
   domain of the operation; after ChangeModel.stateForwards the options and the
   domain are those of the operation and the fields are as before; after
   DeleteModel.stateForwards the state does not hold the model; every other
   model is unchanged. *)
C19_ModelOperationsReplay ==
  operationPc = "done" /\ operation.kind \in {"CreateModel", "ChangeModel", "DeleteModel"}
    => /\ OtherModelsUnchanged({operation.modelName})
       /\ operation.kind = "DeleteModel" => operation.modelName \notin DOMAIN stateModels
       /\ operation.kind = "CreateModel" =>
            /\ operation.modelName \in DOMAIN stateModels
            /\ stateModels[operation.modelName] =
                 [name |-> operation.modelName, domainName |-> operation.domainName,
                  domainPath |-> operation.domainPath, fields |-> operation.fields,
                  options |-> operation.options]
       /\ operation.kind = "ChangeModel" =>
            /\ operation.modelName \in DOMAIN stateModels
            /\ stateModels[operation.modelName] =
                 [StateGet(stateBefore, operation.modelName)[operation.modelName]
                    EXCEPT !.domainName = operation.domainName,
                           !.domainPath = operation.domainPath,
                           !.options = operation.options]

(* A CreateModel replayed on a state that already held the model with other
   fields, next to another model. *)
C19_Witness ==
  /\ operationPc = "done"
  /\ operation.kind = "CreateModel"
  /\ operation.modelName \in DOMAIN stateBefore
  /\ stateBefore[operation.modelName].fields # operation.fields
  /\ DOMAIN stateBefore \ {operation.modelName} # {}

----------------------------------------------------------------------------
(* Claims about the object schema *)

(* C20: every variant of the object handed to the adapter has an entry for every
   key whose value is a schema, however many variants the schemas translate to
   and in whatever order the keys resolve. *)
C20_EveryVariantHasEveryKey ==
  objectPc = "translated" =>
    \A i \in DOMAIN translatedVariants :
      \A key \in ObjectKeys :
        toTransform[key].isSchema => key \in DOMAIN translatedVariants[i].transformed

====
